---- MODULE Spec2Model ----
(***************************************************************************)
(* A model of go-xmapper (package xmapper, main.go and                     *)
(* validators/validators.go).  A Go string is a sequence of one-character  *)
(* strings, so that tag parsing, trimming, splitting and the transformers  *)
(* are computed character by character as the code computes them.          *)
(***************************************************************************)
EXTENDS Integers, Sequences, FiniteSets, TLC

(***************************************************************************)
(* Bounds of the model.                                                    *)
(***************************************************************************)
\* number of mapping calls in one behaviour
MaxCalls == 1
\* the calls of MapStructs a client makes in a row, registering in between
MaxRecalls == 2

(***************************************************************************)
(* Text: the functions of package strings and strconv that the code uses.  *)
(***************************************************************************)
Lower == <<"a","b","c","d","e","f","g","h","i","j","k","l","m",
           "n","o","p","q","r","s","t","u","v","w","x","y","z">>
Upper == <<"A","B","C","D","E","F","G","H","I","J","K","L","M",
           "N","O","P","Q","R","S","T","U","V","W","X","Y","Z">>
Digits == <<"0","1","2","3","4","5","6","7","8","9">>

\* position of c in the sequence a, 0 when absent
IndexIn(a, c) ==
    IF \E i \in 1..Len(a) : a[i] = c
    THEN CHOOSE i \in 1..Len(a) : a[i] = c
    ELSE 0

\* unicode.ToUpper on the characters of the model
ToUpperChar(c) == IF IndexIn(Lower, c) > 0 THEN Upper[IndexIn(Lower, c)] ELSE c

\* strings.ToUpper
ToUpper(s) == [i \in 1..Len(s) |-> ToUpperChar(s[i])]

\* unicode.IsSpace on the characters of the model
IsSpace(c) == c = " "

\* strings.TrimSpace
RECURSIVE TrimLeft(_)
TrimLeft(s) ==
    IF s # <<>> /\ IsSpace(Head(s)) THEN TrimLeft(Tail(s)) ELSE s

RECURSIVE TrimRight(_)
TrimRight(s) ==
    IF s # <<>> /\ IsSpace(s[Len(s)])
    THEN TrimRight(SubSeq(s, 1, Len(s) - 1))
    ELSE s

TrimSpace(s) == TrimRight(TrimLeft(s))

\* strings.Split(s, sep) for a one-character separator: always at least one piece
RECURSIVE SplitAcc(_, _, _, _)
SplitAcc(s, sep, cur, acc) ==
    IF s = <<>> THEN Append(acc, cur)
    ELSE IF Head(s) = sep
         THEN SplitAcc(Tail(s), sep, <<>>, Append(acc, cur))
         ELSE SplitAcc(Tail(s), sep, Append(cur, Head(s)), acc)

Split(s, sep) == SplitAcc(s, sep, <<>>, <<>>)

\* strings.SplitN(s, sep, 2): cut at the first separator only
SplitN2(s, sep) ==
    LET i == IndexIn(s, sep)
    IN  IF i = 0 THEN <<s>>
        ELSE <<SubSeq(s, 1, i - 1), SubSeq(s, i + 1, Len(s))>>


\* the decimal value of a sequence of digits
RECURSIVE DigitsValue(_, _)
DigitsValue(s, acc) ==
    IF s = <<>> THEN acc
    ELSE DigitsValue(Tail(s), 10 * acc + (IndexIn(Digits, Head(s)) - 1))

\* strconv.Atoi: an optional sign followed by at least one digit
Atoi(s) ==
    LET signed == s # <<>> /\ Head(s) \in {"+", "-"}
        body   == IF signed THEN Tail(s) ELSE s
        ok     == body # <<>> /\ \A i \in 1..Len(body) : IndexIn(Digits, body[i]) > 0
    IN  [ok |-> ok,
         n  |-> IF ~ok THEN 0
                ELSE IF signed /\ Head(s) = "-" THEN 0 - DigitsValue(body, 0)
                ELSE DigitsValue(body, 0)]

(***************************************************************************)
(* Go values.  Every value carries its dynamic type t; a string keeps its  *)
(* characters in s, an int its number in n, a pointer or a slice its       *)
(* nil-ness in nil and its pointee or elements in el, a struct its field   *)
(* values in el (declaration order).                                       *)
(***************************************************************************)
StrV(s)        == [t |-> "string", s |-> s, n |-> 0, nil |-> FALSE, el |-> <<>>]
IntV(n)        == [t |-> "int", s |-> <<>>, n |-> n, nil |-> FALSE, el |-> <<>>]
Int64V(n)      == [t |-> "int64", s |-> <<>>, n |-> n, nil |-> FALSE, el |-> <<>>]
UintV(n)       == [t |-> "uint", s |-> <<>>, n |-> n, nil |-> FALSE, el |-> <<>>]
PtrV(t, v)     == [t |-> t, s |-> <<>>, n |-> 0, nil |-> FALSE, el |-> <<v>>]
NilV(t)        == [t |-> t, s |-> <<>>, n |-> 0, nil |-> TRUE, el |-> <<>>]
SliceV(t, els) == [t |-> t, s |-> <<>>, n |-> 0, nil |-> FALSE, el |-> els]
StructV(t, fs) == [t |-> t, s |-> <<>>, n |-> 0, nil |-> FALSE, el |-> fs]
\* the zero reflect.Value / the nil interface
NoV            == [t |-> "invalid", s |-> <<>>, n |-> 0, nil |-> TRUE, el |-> <<>>]

(***************************************************************************)
(* Names used in the tags of the record types below.                       *)
(***************************************************************************)
sRequired  == <<"r","e","q","u","i","r","e","d">>
sMinLength == <<"m","i","n","L","e","n","g","t","h">>
sMaxLength == <<"m","a","x","L","e","n","g","t","h">>
sLen       == <<"l","e","n">>
sUp        == <<"u","p">>
sEx        == <<"e","x">>
sTw        == <<"t","w">>

\* a struct field as reflect.StructField shows it: Go name, type, and the
\* values of the tag keys json, validator and transformer
Field(name, type, json, validator, transformer) ==
    [name |-> name, type |-> type, json |-> json,
     validator |-> validator, transformer |-> transformer]

(***************************************************************************)
(* The record types of the model, as a client package would declare them.  *)
(***************************************************************************)
StructTypes == {"User", "UserDTO", "Order", "OrderDTO", "Inner", "InnerDTO",
                "Dup", "DupDTO", "Plain", "Leaf", "Mis", "Doc", "DocDTO",
                "Alt", "AltDTO"}

Fields(t) ==
    CASE t = "User" ->
           << Field("Name", "string", <<"n","a","m","e">>,
                    sRequired \o <<",", " ">> \o sMinLength \o <<":", "2">>,
                    sUp \o <<",">> \o sEx \o <<",">> \o sTw),
              Field("Code", "string", <<"c","o","d","e">>,
                    sMaxLength \o <<":", "3">>, <<>>),
              Field("Nick", "string", <<"n","i","c","k",",","o","m","i","t","e","m","p","t","y">>,
                    <<>>, <<" ">> \o sUp \o <<" ">>),
              Field("Age", "int", <<"a","g","e">>, <<>>, <<>>) >>
      [] t = "UserDTO" ->
           << Field("Name", "string", <<"n","a","m","e">>, <<>>, <<>>),
              Field("Nick", "string", <<"n","i","c","k">>, <<>>, <<>>),
              Field("Age", "int", <<"a","g","e">>, <<>>, <<>>),
              Field("Note", "string", <<"-">>, <<>>, <<>>),
              Field("Extra", "string", <<>>, <<>>, <<>>) >>
      [] t = "Order" ->
           << Field("ID", "string", <<"i","d">>, <<>>, sUp),
              Field("Owner", "Inner", <<"o","w","n","e","r">>, <<>>, <<>>),
              Field("Tags", "[]string", <<"t","a","g","s">>, <<>>, sUp),
              Field("Lines", "[]Inner", <<"l","i","n","e","s">>, <<>>, <<>>),
              Field("Memo", "*string", <<"m","e","m","o">>, sRequired, sUp) >>
      [] t = "OrderDTO" ->
           << Field("ID", "string", <<"i","d">>, <<>>, <<>>),
              Field("Owner", "InnerDTO", <<"o","w","n","e","r">>, <<>>, <<>>),
              Field("Tags", "[]string", <<"t","a","g","s">>, <<>>, <<>>),
              Field("Lines", "[]InnerDTO", <<"l","i","n","e","s">>, <<>>, <<>>),
              Field("Memo", "*string", <<"m","e","m","o">>, <<>>, <<>>) >>
      [] t = "Inner" ->
           << Field("Email", "string", <<"e","m","a","i","l">>,
                    sLen \o <<":", "2">>, sEx),
              Field("Zip", "string", <<"z","i","p">>, <<>>, <<>>) >>
      [] t = "InnerDTO" ->
           << Field("Zip", "string", <<"z","i","p">>, <<>>, <<>>),
              Field("Email", "string", <<"e","m","a","i","l">>, <<>>, <<>>) >>
      [] t = "Dup" ->
           << Field("A", "string", <<"x">>, sRequired, sUp),
              Field("B", "string", <<"x">>, sMinLength \o <<":", "2">>, sEx) >>
      [] t = "DupDTO" ->
           << Field("X1", "string", <<"x">>, <<>>, <<>>),
              Field("X2", "string", <<"x">>, <<>>, <<>>) >>
      [] t = "Plain" ->
           << Field("S", "string", <<"s">>, <<>>, <<>>),
              Field("N", "int", <<"n">>, <<>>, <<>>),
              Field("P", "*string", <<"p">>, <<>>, <<>>),
              Field("L", "[]string", <<"l">>, <<>>, <<>>),
              Field("In", "Leaf", <<"i","n">>, <<>>, <<>>),
              Field("Ls", "[]Leaf", <<"l","s">>, <<>>, <<>>) >>
      [] t = "Leaf" ->
           << Field("V", "string", <<"v">>, <<>>, <<>>) >>
      [] t = "Mis" ->
           << Field("Name", "int", <<"n","a","m","e">>, <<>>, <<>>) >>
      [] t = "Doc" ->
           << Field("Opt", "*string", <<"o","p","t">>, <<>>, sUp),
              Field("Tags", "[]string", <<"t","a","g","s">>, <<>>, sUp),
              Field("Owner", "Leaf", <<"o","w","n","e","r">>, <<>>, <<>>),
              Field("Items", "[]Leaf", <<"i","t","e","m","s">>, <<>>, <<>>),
              Field("Csv", "string", <<"c","s","v">>, <<>>, sEx),
              Field("Raw", "string", <<"r","a","w">>, <<>>, <<>>) >>
      [] t = "DocDTO" ->
           << Field("Opt", "string", <<"o","p","t">>, <<>>, <<>>),
              Field("Tags", "string", <<"t","a","g","s">>, <<>>, <<>>),
              Field("Owner", "string", <<"o","w","n","e","r">>, <<>>, <<>>),
              Field("Items", "string", <<"i","t","e","m","s">>, <<>>, <<>>),
              Field("Csv", "[]string", <<"c","s","v">>, <<>>, <<>>),
              Field("Raw", "Leaf", <<"r","a","w">>, <<>>, <<>>) >>
      [] t = "Alt" ->
           << Field("Raw", "string", <<"r","a","w">>, <<>>, <<>>),
              Field("Tags", "[]string", <<"t","a","g","s">>, <<>>, <<>>) >>
      [] t = "AltDTO" ->
           << Field("Raw", "*Leaf", <<"r","a","w">>, <<>>, <<>>),
              Field("Tags", "[]int", <<"t","a","g","s">>, <<>>, <<>>) >>

\* reflect.Type.Kind
Kind(t) ==
    CASE t = "string" -> "string"
      [] t = "int" -> "int"
      [] t = "int64" -> "int64"
      [] t = "uint" -> "uint"
      [] t \in {"*string", "*User", "*UserDTO", "*Order", "*OrderDTO", "*Dup",
                "*DupDTO", "*Plain", "*Mis", "*Doc", "*DocDTO", "*Leaf"} -> "ptr"
      [] t \in {"[]string", "[]Leaf", "[]Inner", "[]InnerDTO", "[]int"} -> "slice"
      [] t \in StructTypes -> "struct"
      [] OTHER -> "invalid"

\* reflect.Type.Elem of a pointer or slice type
Elem(t) ==
    CASE t = "*string" -> "string"
      [] t = "[]string" -> "string"
      [] t = "[]Leaf" -> "Leaf"
      [] t = "[]Inner" -> "Inner"
      [] t = "[]InnerDTO" -> "InnerDTO"
      [] t = "*Leaf" -> "Leaf"
      [] t = "[]int" -> "int"
      [] OTHER -> "invalid"

\* reflect.Zero
RECURSIVE Zero(_)
Zero(t) ==
    CASE Kind(t) = "string" -> StrV(<<>>)
      [] Kind(t) = "int" -> IntV(0)
      [] Kind(t) \in {"ptr", "slice"} -> NilV(t)
      [] Kind(t) = "struct" ->
           StructV(t, [i \in 1..Len(Fields(t)) |-> Zero(Fields(t)[i].type)])
      [] OTHER -> NoV

(***************************************************************************)
(* Errors.  kind tells which failure it is, name the field or registry     *)
(* name the message carries, msg the message text with its %s left in      *)
(* place, arg the text substituted for a second %s, path the source field  *)
(* (or, for a failure while the pipelines are built, the struct level).    *)
(***************************************************************************)
Err(kind, name, msg, arg, path) ==
    [kind |-> kind, name |-> name, msg |-> msg, arg |-> arg, path |-> path]
NoErr == Err("none", <<>>, "", <<>>, <<>>)
\* the error value a validator returns
Cause(msg, arg) == Err("cause", <<>>, msg, arg, <<>>)

(***************************************************************************)
(* The transformers a client registers (the helpers of the test package).  *)
(***************************************************************************)
TransformerFuncs == {"toUpperCase", "addExclamation", "repeatTwice"}

toUpperCase(input) ==
    IF input.t = "string" THEN StrV(ToUpper(input.s)) ELSE input

addExclamation(input) ==
    IF input.t = "string" THEN StrV(input.s \o <<"!">>) ELSE input

repeatTwice(input) ==
    IF input.t = "string" THEN StrV(input.s \o <<" ">> \o input.s) ELSE input

\* the call f(value) of a TransformerFunc
ApplyTransformer(f, value) ==
    CASE f = "toUpperCase" -> toUpperCase(value)
      [] f = "addExclamation" -> addExclamation(value)
      [] f = "repeatTwice" -> repeatTwice(value)

(***************************************************************************)
(* Validators: package validators, and the minLength helper of the test    *)
(* package (which a client registers under a name of its own).             *)
(***************************************************************************)
\* isEmptyOrNull
isEmptyOrNull(input) ==
    CASE input.t = "invalid" -> TRUE
      [] Kind(input.t) = "string" -> input.s = <<>>
      [] Kind(input.t) = "slice" -> Len(input.el) = 0
      [] Kind(input.t) = "ptr" -> input.nil
      [] Kind(input.t) \in {"int", "int64"} -> input.n = 0
      [] OTHER -> FALSE

\* isEmptyOrNull calls reflect.Value.Int on the unsigned kinds as well, which
\* panics
isEmptyOrNullPanics(input) == Kind(input.t) = "uint"

Panic(msg) == Err("panic", <<>>, msg, <<>>, <<>>)

\* a validator begins with isEmptyOrNull: an empty input is accepted
unlessEmpty(input, rest) ==
    IF isEmptyOrNullPanics(input)
    THEN Panic("reflect: call of reflect.Value.Int on uint Value")
    ELSE IF isEmptyOrNull(input) THEN NoErr
    ELSE rest

\* getString: the text of a string or of a chain of pointers to one
RECURSIVE getString(_)
getString(input) ==
    IF Kind(input.t) = "ptr"
    THEN IF input.nil THEN [str |-> <<>>, ok |-> TRUE] ELSE getString(input.el[1])
    ELSE IF input.t = "string" THEN [str |-> input.s, ok |-> TRUE]
         ELSE [str |-> <<>>, ok |-> FALSE]

RequiredValidator(input, arg) ==
    CASE Kind(input.t) = "string" ->
           IF TrimSpace(input.s) = <<>>
           THEN Cause("input is required and cannot be empty", <<>>) ELSE NoErr
      [] Kind(input.t) = "ptr" ->
           IF input.nil
           THEN Cause("input is required and cannot be nil", <<>>) ELSE NoErr
      [] Kind(input.t) = "int" ->
           IF input.n = 0
           THEN Cause("input is required and cannot be zero", <<>>) ELSE NoErr
      [] Kind(input.t) = "slice" ->
           IF Len(input.el) = 0
           THEN Cause("input is required and cannot be empty", <<>>) ELSE NoErr
      [] Kind(input.t) = "struct" -> NoErr
      [] OTHER -> Cause("unsupported type", <<>>)

MinLengthValidator(input, length) ==
    IF isEmptyOrNullPanics(input)
    THEN Panic("reflect: call of reflect.Value.Int on uint Value")
    ELSE IF isEmptyOrNull(input) THEN NoErr
    ELSE IF ~getString(input).ok
         THEN Cause("failed to map the input to a string", <<>>)
    ELSE IF ~Atoi(length).ok
         THEN Cause("failed to convert length to integer", <<>>)
    ELSE IF Len(getString(input).str) < Atoi(length).n
         THEN Cause("input does not meet the minimum length requirement, minimum length is %s", length)
    ELSE NoErr

MaxLengthValidator(input, length) ==
    IF isEmptyOrNullPanics(input)
    THEN Panic("reflect: call of reflect.Value.Int on uint Value")
    ELSE IF isEmptyOrNull(input) THEN NoErr
    ELSE IF ~getString(input).ok
         THEN Cause("failed to map the input to a string", <<>>)
    ELSE IF ~Atoi(length).ok
         THEN Cause("failed to convert length to integer", <<>>)
    ELSE IF Len(getString(input).str) > Atoi(length).n
         THEN Cause("input exceeds the maximum length requirement, maximum length is %s", length)
    ELSE NoErr

\* the text validators after isEmptyOrNull: getString, then the check of
\* the text
textChecked(input, msg, cause) ==
    IF ~getString(input).ok THEN Cause(msg, <<>>) ELSE cause

sNotText == "failed to map the input to a string"

\* all characters of s are in the set
AllIn(s, set) == \A i \in 1..Len(s) : s[i] \in set

LowerSet == {Lower[i] : i \in 1..Len(Lower)}
UpperSet == {Upper[i] : i \in 1..Len(Upper)}
DigitSet == {Digits[i] : i \in 1..Len(Digits)}

\* position of the last c in s, 0 when absent
LastIndexIn(s, c) ==
    IF \E i \in 1..Len(s) : s[i] = c
    THEN CHOOSE i \in 1..Len(s) : s[i] = c /\ \A j \in (i + 1)..Len(s) : s[j] # c
    ELSE 0

\* strings.HasPrefix, strings.HasSuffix, strings.Contains
HasPrefix(s, prefix) == Len(prefix) <= Len(s) /\ SubSeq(s, 1, Len(prefix)) = prefix
HasSuffix(s, suffix) ==
    Len(suffix) <= Len(s) /\ SubSeq(s, Len(s) - Len(suffix) + 1, Len(s)) = suffix
Contains(s, substr) ==
    \E i \in 1..(Len(s) - Len(substr) + 1) : SubSeq(s, i, i + Len(substr) - 1) = substr

\* ^[a-z0-9._%+-]+@[a-z0-9.-]+\.[a-z]{2,4}$
emailRegex(str) ==
    LET at   == IndexIn(str, "@")
        rest == SubSeq(str, at + 1, Len(str))
        dot  == LastIndexIn(rest, ".")
    IN  /\ at > 1
        /\ AllIn(SubSeq(str, 1, at - 1), LowerSet \cup DigitSet \cup {".", "_", "%", "+", "-"})
        /\ dot > 1
        /\ AllIn(SubSeq(rest, 1, dot - 1), LowerSet \cup DigitSet \cup {".", "-"})
        /\ Len(rest) - dot \in 2..4
        /\ AllIn(SubSeq(rest, dot + 1, Len(rest)), LowerSet)

\* ^\+[1-9]\d{1,14}$
phoneRegex(str) ==
    /\ Len(str) \in 3..16
    /\ str[1] = "+"
    /\ str[2] \in DigitSet \ {"0"}
    /\ AllIn(SubSeq(str, 3, Len(str)), DigitSet)

\* the class of special characters of StrongPasswordValidator, but for the
\* backquote, which no text of the model holds
SpecialSet ==
    {"^", "$", "*", ".", "[", "]", "{", "}", "(", ")", "?", "!", "\"", "@", "#", "%", "&",
     "/", ",", ">", "<", "'", ":", ";", "|", "_", "~", "-"}

\* the texts of the model written in the forms the standard library parses
sDate     == <<"2", "0", "2", "4", "-", "0", "2", "-", "2", "9">>
sTime     == <<"1", "2", ":", "3", "0", ":", "4", "5">>
sDatetime == <<"2", "0", "2", "4", "-", "0", "2", "-", "2", "9", " ", "1", "2", ":", "3", "0", ":", "4", "5", " ", "U", "T", "C">>
sUrl      == <<"h", "t", "t", "p", ":", "/", "/", "a", ".", "i", "o">>
sIp       == <<"1", "0", ".", "0", ".", "0", ".", "1">>

\* time.Parse with the layouts of the date, time and datetime validators,
\* url.ParseRequestURI (with the scheme and host tests) and net.Parse<<"1", "0", ".", "0", ".", "0", ".", "1">>, on
\* the texts of the model: each accepts the one text written in its form
stdAccepts(f, str) ==
    CASE f = "DateValidator" -> str = sDate
      [] f = "TimeValidator" -> str = sTime
      [] f = "DatetimeValidator" -> str = sDatetime
      [] f = "UrlValidator" -> str = sUrl
      [] f = "IpValidator" -> str = sIp

EmailValidator(input, arg) ==
    unlessEmpty(input,
      textChecked(input, sNotText,
        IF ~emailRegex(getString(input).str)
        THEN Cause("input is not a valid email address", <<>>) ELSE NoErr))

PhoneValidator(input, arg) ==
    unlessEmpty(input,
      textChecked(input, sNotText,
        IF ~phoneRegex(getString(input).str)
        THEN Cause("input is not a valid international phone number", <<>>) ELSE NoErr))

StrongPasswordValidator(input, arg) ==
    unlessEmpty(input,
      textChecked(input, sNotText,
        LET str == getString(input).str
        IN  IF Len(str) < 8 THEN Cause("password must be at least 8 characters long", <<>>)
            ELSE IF \A i \in 1..Len(str) : str[i] \notin UpperSet
            THEN Cause("password must contain at least one uppercase letter", <<>>)
            ELSE IF \A i \in 1..Len(str) : str[i] \notin LowerSet
            THEN Cause("password must contain at least one lowercase letter", <<>>)
            ELSE IF \A i \in 1..Len(str) : str[i] \notin DigitSet
            THEN Cause("password must contain at least one digit", <<>>)
            ELSE IF \A i \in 1..Len(str) : str[i] \notin SpecialSet
            THEN Cause("password must contain at least one special character", <<>>)
            ELSE NoErr))

\* DateValidator, TimeValidator, DatetimeValidator, UrlValidator, IpValidator
ParsedValidator(f, input, msg) ==
    unlessEmpty(input,
      textChecked(input, sNotText,
        IF ~stdAccepts(f, getString(input).str) THEN Cause(msg, <<>>) ELSE NoErr))

EnumValidator(input, allowedValues) ==
    unlessEmpty(input,
      textChecked(input, sNotText,
        IF \E k \in 1..Len(Split(allowedValues, "-")) :
              TrimSpace(getString(input).str) = TrimSpace(Split(allowedValues, "-")[k])
        THEN NoErr
        ELSE Cause("input must be one of the following values: %s", allowedValues)))

ContainsValidator(input, allowedValues) ==
    unlessEmpty(input,
      textChecked(input, sNotText,
        IF \E k \in 1..Len(Split(allowedValues, ",")) :
              Contains(getString(input).str, TrimSpace(Split(allowedValues, ",")[k]))
        THEN NoErr
        ELSE Cause("input must contain one of the following values: %s", allowedValues)))

NotContainsValidator(input, disallowedValues) ==
    unlessEmpty(input,
      textChecked(input, sNotText,
        IF \E k \in 1..Len(Split(disallowedValues, ",")) :
              Contains(getString(input).str, TrimSpace(Split(disallowedValues, ",")[k]))
        THEN Cause("input must not contain the following value: %s",
                   Split(disallowedValues, ",")
                     [CHOOSE k \in 1..Len(Split(disallowedValues, ",")) :
                        /\ Contains(getString(input).str,
                                    TrimSpace(Split(disallowedValues, ",")[k]))
                        /\ \A j \in 1..(k - 1) :
                             ~Contains(getString(input).str,
                                       TrimSpace(Split(disallowedValues, ",")[j]))])
        ELSE NoErr))

StartsWidthValidator(input, prefix) ==
    unlessEmpty(input,
      textChecked(input, "input must be a string",
        IF ~HasPrefix(getString(input).str, prefix)
        THEN Cause("input must start with '%s'", prefix) ELSE NoErr))

EndsWithValidator(input, suffix) ==
    unlessEmpty(input,
      textChecked(input, "input must be a string",
        IF ~HasSuffix(getString(input).str, suffix)
        THEN Cause("input must end with '%s'", suffix) ELSE NoErr))

\* strconv.ParseFloat(s, 64) on the texts of the model: it gives the number
\* of a decimal integer literal, and an error for the others (none of them
\* is written with a point, an exponent or as inf or nan)
ParseFloat(s) == Atoi(s)

\* convertToFloat64: the input as a float64, which is exact for the integers
\* of the model, all below 2^53
convertToFloat64(input, threshold) ==
    IF Kind(input.t) \notin {"int", "int64"}
    THEN [number |-> 0, thresh |-> 0, err |-> Cause("input must be a number", <<>>)]
    ELSE IF ~ParseFloat(threshold).ok
    THEN [number |-> 0, thresh |-> 0,
          err |-> Cause("failed to convert threshold to float: %v", threshold)]
    ELSE [number |-> input.n, thresh |-> ParseFloat(threshold).n, err |-> NoErr]

\* the comparison of a threshold validator once convertToFloat64 returned c
compared(c, failed, msg, threshold) ==
    IF c.err.kind # "none" THEN c.err
    ELSE IF failed THEN Cause(msg, threshold)
    ELSE NoErr

GreaterThanValidator(input, threshold) ==
    unlessEmpty(input,
      compared(convertToFloat64(input, threshold),
               convertToFloat64(input, threshold).number
                  <= convertToFloat64(input, threshold).thresh,
               "input must be greater than %s", threshold))

LessThanValidator(input, threshold) ==
    unlessEmpty(input,
      compared(convertToFloat64(input, threshold),
               convertToFloat64(input, threshold).number
                  >= convertToFloat64(input, threshold).thresh,
               "input must be less than %s", threshold))

GreaterThanOrEqualValidator(input, threshold) ==
    unlessEmpty(input,
      compared(convertToFloat64(input, threshold),
               convertToFloat64(input, threshold).number
                  < convertToFloat64(input, threshold).thresh,
               "input must be greater than or equal to %s", threshold))

LessThanOrEqualValidator(input, threshold) ==
    unlessEmpty(input,
      compared(convertToFloat64(input, threshold),
               convertToFloat64(input, threshold).number
                  > convertToFloat64(input, threshold).thresh,
               "input must be less than or equal to %s", threshold))

\* RangeValidator once the range is split into parts
rangeChecked(input, parts) ==
    IF Len(parts) # 2
    THEN Cause("range format is incorrect, must be 'min-max'", <<>>)
    ELSE IF ~ParseFloat(parts[1]).ok
    THEN Cause("failed to parse minimum value: %s", parts[1])
    ELSE IF ~ParseFloat(parts[2]).ok
    THEN Cause("failed to parse maximum value: %s", parts[2])
    ELSE IF ParseFloat(parts[1]).n > ParseFloat(parts[2]).n
    THEN Cause("minimum value must be less than maximum value", <<>>)
    ELSE compared(convertToFloat64(input, parts[1]),
                  \/ convertToFloat64(input, parts[1]).number < ParseFloat(parts[1]).n
                  \/ convertToFloat64(input, parts[1]).number > ParseFloat(parts[2]).n,
                  "input must be between %s and %s", parts[1] \o <<"-">> \o parts[2])

RangeValidator(input, rangeStr) ==
    unlessEmpty(input,
      IF Kind(input.t) # "int"
      THEN Cause("input must be a number", <<>>)
      ELSE rangeChecked(input, Split(rangeStr, "-")))

\* minLength of the test package: no empty-input shortcut, strings only
minLength(input, length) ==
    IF input.t # "string"
    THEN Cause("failed to map the input to a string", <<>>)
    ELSE IF ~Atoi(length).ok
         THEN Cause("failed to convert length to integer", <<>>)
    ELSE IF Len(input.s) < Atoi(length).n
         THEN Cause("input does not meet the minimum length requirement, minimum length is %s", length)
    ELSE NoErr

\* the call f(value, arg) of a ValidatorFunc
ApplyValidator(f, value, arg) ==
    CASE f = "RequiredValidator" -> RequiredValidator(value, arg)
      [] f = "MinLengthValidator" -> MinLengthValidator(value, arg)
      [] f = "MaxLengthValidator" -> MaxLengthValidator(value, arg)
      [] f = "minLength" -> minLength(value, arg)
      [] f = "EmailValidator" -> EmailValidator(value, arg)
      [] f = "PhoneValidator" -> PhoneValidator(value, arg)
      [] f = "StrongPasswordValidator" -> StrongPasswordValidator(value, arg)
      [] f = "DateValidator" ->
           ParsedValidator(f, value, "input is not a valid date, expected format YYYY-MM-DD")
      [] f = "TimeValidator" ->
           ParsedValidator(f, value, "input is not a valid time, expected format HH:MM:SS")
      [] f = "DatetimeValidator" ->
           ParsedValidator(f, value, "input is not a valid datetime with timezone, expected format YYYY-MM-DD HH:MM:SS MST")
      [] f = "UrlValidator" -> ParsedValidator(f, value, "input is not a valid URL")
      [] f = "IpValidator" -> ParsedValidator(f, value, "input is not a valid IP address")
      [] f = "EnumValidator" -> EnumValidator(value, arg)
      [] f = "ContainsValidator" -> ContainsValidator(value, arg)
      [] f = "NotContainsValidator" -> NotContainsValidator(value, arg)
      [] f = "StartsWidthValidator" -> StartsWidthValidator(value, arg)
      [] f = "EndsWithValidator" -> EndsWithValidator(value, arg)
      [] f = "GreaterThanValidator" -> GreaterThanValidator(value, arg)
      [] f = "LessThanValidator" -> LessThanValidator(value, arg)
      [] f = "GreaterThanOrEqualValidator" -> GreaterThanOrEqualValidator(value, arg)
      [] f = "LessThanOrEqualValidator" -> LessThanOrEqualValidator(value, arg)
      [] f = "RangeValidator" -> RangeValidator(value, arg)

\* the registrations of func init()
BuiltinValidators ==
    { <<<<"r","e","q","u","i","r","e","d">>, "RequiredValidator">>,
      <<<<"e","m","a","i","l">>, "EmailValidator">>,
      <<<<"p","h","o","n","e">>, "PhoneValidator">>,
      <<<<"s","t","r","o","n","g","P","a","s","s","w","o","r","d">>, "StrongPasswordValidator">>,
      <<<<"d","a","t","e">>, "DateValidator">>,
      <<<<"t","i","m","e">>, "TimeValidator">>,
      <<<<"d","a","t","e","t","i","m","e">>, "DatetimeValidator">>,
      <<<<"u","r","l">>, "UrlValidator">>,
      <<<<"i","p">>, "IpValidator">>,
      <<<<"m","i","n","L","e","n","g","t","h">>, "MinLengthValidator">>,
      <<<<"m","a","x","L","e","n","g","t","h">>, "MaxLengthValidator">>,
      <<<<"g","t">>, "GreaterThanValidator">>,
      <<<<"l","t">>, "LessThanValidator">>,
      <<<<"g","t","e">>, "GreaterThanOrEqualValidator">>,
      <<<<"l","t","e">>, "LessThanOrEqualValidator">>,
      <<<<"r","a","n","g","e">>, "RangeValidator">>,
      <<<<"e","n","u","m">>, "EnumValidator">>,
      <<<<"b","o","o","l","e","a","n">>, "BooleanValidator">>,
      <<<<"c","o","n","t","a","i","n","s">>, "ContainsValidator">>,
      <<<<"n","o","t","C","o","n","t","a","i","n","s">>, "NotContainsValidator">>,
      <<<<"s","t","a","r","t","s","W","i","d","t","h">>, "StartsWidthValidator">>,
      <<<<"e","n","d","s","W","i","t","h">>, "EndsWithValidator">> }

\* a registry: the map from the registered names to the registered function
RegistryOf(pairs) ==
    [name \in {p[1] : p \in pairs} |-> (CHOOSE p \in pairs : p[1] = name)[2]]

(***************************************************************************)
(* encoding/json, as far as the values and the texts of the model go:      *)
(* texts, non-negative whole numbers, pointers, slices and structs; the     *)
(* texts hold no control character and none of < > &, which json.Marshal   *)
(* would write as escapes.                                                 *)
(***************************************************************************)
sNull == <<"n","u","l","l">>

\* strconv.Itoa
RECURSIVE Itoa(_)
Itoa(n) ==
    IF n < 0 THEN <<"-">> \o Itoa(0 - n)
    ELSE IF n < 10 THEN <<Digits[n + 1]>>
    ELSE Itoa(n \div 10) \o <<Digits[(n % 10) + 1]>>

\* a text as a JSON string: quotes around it, quote and backslash escaped
RECURSIVE quoteChars(_)
quoteChars(s) ==
    IF s = <<>> THEN <<>>
    ELSE (IF Head(s) \in {"\"", "\\"} THEN <<"\\", Head(s)>> ELSE <<Head(s)>>)
         \o quoteChars(Tail(s))

quote(s) == <<"\"">> \o quoteChars(s) \o <<"\"">>

\* the Go name of a field that carries no json tag
GoName(f) ==
    CASE f.name = "Extra" -> <<"E","x","t","r","a">>
      [] OTHER -> <<>>

\* the key encoding/json gives a field: the json tag up to the first comma,
\* the Go name when that is empty
jsonKey(f) ==
    IF f.json = <<>> THEN GoName(f)
    ELSE IF Split(f.json, ",")[1] = <<>> THEN GoName(f)
    ELSE Split(f.json, ",")[1]

\* the field is left out of the encoding: tag "-", or omitempty and empty
jsonOmitted(f, v) ==
    \/ f.json = <<"-">>
    \/ /\ f.json # <<>>
       /\ \E k \in 2..Len(Split(f.json, ",")) :
             Split(f.json, ",")[k] = <<"o","m","i","t","e","m","p","t","y">>
       /\ \/ Kind(v.t) = "string" /\ v.s = <<>>
          \/ Kind(v.t) = "int" /\ v.n = 0
          \/ Kind(v.t) \in {"ptr", "slice"} /\ (v.nil \/ (Kind(v.t) = "slice" /\ v.el = <<>>))

\* json.Marshal
RECURSIVE Marshal(_)
RECURSIVE marshalElems(_, _)
RECURSIVE marshalFields(_, _, _)

marshalElems(els, k) ==
    IF k > Len(els) THEN <<>>
    ELSE (IF k > 1 THEN <<",">> ELSE <<>>) \o Marshal(els[k]) \o marshalElems(els, k + 1)

marshalFields(v, i, first) ==
    IF i > Len(Fields(v.t)) THEN <<>>
    ELSE IF jsonOmitted(Fields(v.t)[i], v.el[i]) THEN marshalFields(v, i + 1, first)
    ELSE (IF first THEN <<>> ELSE <<",">>)
         \o quote(jsonKey(Fields(v.t)[i])) \o <<":">> \o Marshal(v.el[i])
         \o marshalFields(v, i + 1, FALSE)

Marshal(v) ==
    IF Kind(v.t) = "string" THEN quote(v.s)
    ELSE IF Kind(v.t) = "int" THEN Itoa(v.n)
    ELSE IF Kind(v.t) \in {"ptr", "slice"} /\ v.nil THEN sNull
    ELSE IF Kind(v.t) = "ptr" THEN Marshal(v.el[1])
    ELSE IF Kind(v.t) = "slice" THEN <<"[">> \o marshalElems(v.el, 1) \o <<"]">>
    ELSE IF Kind(v.t) = "struct" THEN <<"{">> \o marshalFields(v, 1, TRUE) \o <<"}">>
    ELSE sNull

\* a parsed JSON text: a string or a number (k, its characters in s), null,
\* true or false, an array (its elements in el) or an object (its keys and
\* their values, in the order of the text)
JV(k, s, keys, el) == [k |-> k, s |-> s, keys |-> keys, el |-> el]
JNull == JV("null", <<>>, <<>>, <<>>)

Parsed(v, rest) == [ok |-> TRUE, v |-> v, rest |-> rest]
NotParsed == [ok |-> FALSE, v |-> JNull, rest |-> <<>>]

RECURSIVE skipSpace(_)
skipSpace(s) ==
    IF s # <<>> /\ Head(s) \in {" ", "\t", "\n", "\r"} THEN skipSpace(Tail(s)) ELSE s

\* a string from behind its opening quote on; of the escapes, those of the
\* quote, the backslash and the slash
RECURSIVE scanString(_, _)
scanString(s, acc) ==
    IF s = <<>> THEN NotParsed
    ELSE IF Head(s) = "\"" THEN Parsed(JV("str", acc, <<>>, <<>>), Tail(s))
    ELSE IF Head(s) = "\\"
    THEN IF Len(s) >= 2 /\ s[2] \in {"\"", "\\", "/"}
         THEN scanString(Tail(Tail(s)), Append(acc, s[2]))
         ELSE NotParsed
    ELSE scanString(Tail(s), Append(acc, Head(s)))

RECURSIVE scanDigits(_, _)
scanDigits(s, acc) ==
    IF s # <<>> /\ IndexIn(Digits, Head(s)) > 0
    THEN scanDigits(Tail(s), Append(acc, Head(s)))
    ELSE [digits |-> acc, rest |-> s]

\* a whole number without sign: no leading zero before another digit
numberScanned(d) ==
    IF d.digits = <<>> \/ (Len(d.digits) > 1 /\ d.digits[1] = "0") THEN NotParsed
    ELSE Parsed(JV("num", d.digits, <<>>, <<>>), d.rest)

scanLiteral(s, lit, v) ==
    IF Len(s) >= Len(lit) /\ SubSeq(s, 1, Len(lit)) = lit
    THEN Parsed(v, SubSeq(s, Len(lit) + 1, Len(s)))
    ELSE NotParsed

RECURSIVE parseValue(_)
RECURSIVE parseElems(_, _)
RECURSIVE parseMembers(_, _, _)

\* behind an element of an array: a comma and the next element, or the end
afterElem(t, acc) ==
    IF t = <<>> THEN NotParsed
    ELSE IF Head(t) = "," THEN parseElems(Tail(t), acc)
    ELSE IF Head(t) = "]" THEN Parsed(JV("arr", <<>>, <<>>, acc), Tail(t))
    ELSE NotParsed

elemParsed(r, acc) ==
    IF ~r.ok THEN NotParsed ELSE afterElem(skipSpace(r.rest), Append(acc, r.v))

parseElems(s, acc) == elemParsed(parseValue(s), acc)

\* behind a member of an object: a comma and the next member, or the end
afterMember(t, keys, vals) ==
    IF t = <<>> THEN NotParsed
    ELSE IF Head(t) = "," THEN parseMembers(Tail(t), keys, vals)
    ELSE IF Head(t) = "}" THEN Parsed(JV("obj", <<>>, keys, vals), Tail(t))
    ELSE NotParsed

memberParsed(r, keys, vals) ==
    IF ~r.ok THEN NotParsed ELSE afterMember(skipSpace(r.rest), keys, Append(vals, r.v))

keyScanned(k, t, keys, vals) ==
    IF ~k.ok \/ t = <<>> THEN NotParsed
    ELSE IF Head(t) # ":" THEN NotParsed
    ELSE memberParsed(parseValue(Tail(t)), Append(keys, k.v.s), vals)

keyAt(t, keys, vals) ==
    IF t = <<>> THEN NotParsed
    ELSE IF Head(t) # "\"" THEN NotParsed
    ELSE keyScanned(scanString(Tail(t), <<>>), skipSpace(scanString(Tail(t), <<>>).rest),
                    keys, vals)

parseMembers(s, keys, vals) == keyAt(skipSpace(s), keys, vals)

\* what follows an opening bracket (close being its closing bracket)
opened(t, close, empty, s) ==
    IF t # <<>> /\ Head(t) = close THEN Parsed(empty, Tail(t))
    ELSE IF close = "]" THEN parseElems(s, <<>>)
    ELSE parseMembers(s, <<>>, <<>>)

valueAt(s) ==
    IF s = <<>> THEN NotParsed
    ELSE IF Head(s) = "\"" THEN scanString(Tail(s), <<>>)
    ELSE IF Head(s) = "[" THEN opened(skipSpace(Tail(s)), "]", JV("arr", <<>>, <<>>, <<>>), Tail(s))
    ELSE IF Head(s) = "{" THEN opened(skipSpace(Tail(s)), "}", JV("obj", <<>>, <<>>, <<>>), Tail(s))
    ELSE IF IndexIn(Digits, Head(s)) > 0 THEN numberScanned(scanDigits(s, <<>>))
    ELSE IF Head(s) = "n" THEN scanLiteral(s, sNull, JNull)
    ELSE IF Head(s) = "t" THEN scanLiteral(s, <<"t","r","u","e">>, JV("bool", <<"t">>, <<>>, <<>>))
    ELSE IF Head(s) = "f" THEN scanLiteral(s, <<"f","a","l","s","e">>, JV("bool", <<"f">>, <<>>, <<>>))
    ELSE NotParsed

parseValue(s) == valueAt(skipSpace(s))

\* the whole text is one JSON value
wholeText(r) == IF r.ok /\ skipSpace(r.rest) = <<>> THEN r ELSE NotParsed

parseText(s) == wholeText(parseValue(s))

\* a decoded value, and whether some part of the text did not fit its type
\* (the decoder goes on and reports the misfit at the end)
Dec(val, bad) == [val |-> val, bad |-> bad]

\* the field of struct type t a key names: the field with that key, else a
\* field whose key differs in case only; 0 when there is none
fieldFor(t, key) ==
    IF \E i \in 1..Len(Fields(t)) : Fields(t)[i].json # <<"-">> /\ jsonKey(Fields(t)[i]) = key
    THEN CHOOSE i \in 1..Len(Fields(t)) :
            /\ Fields(t)[i].json # <<"-">> /\ jsonKey(Fields(t)[i]) = key
            /\ \A j \in 1..(i - 1) : Fields(t)[j].json = <<"-">> \/ jsonKey(Fields(t)[j]) # key
    ELSE IF \E i \in 1..Len(Fields(t)) :
               Fields(t)[i].json # <<"-">> /\ ToUpper(jsonKey(Fields(t)[i])) = ToUpper(key)
    THEN CHOOSE i \in 1..Len(Fields(t)) :
            /\ Fields(t)[i].json # <<"-">> /\ ToUpper(jsonKey(Fields(t)[i])) = ToUpper(key)
            /\ \A j \in 1..(i - 1) :
                  Fields(t)[j].json = <<"-">> \/ ToUpper(jsonKey(Fields(t)[j])) # ToUpper(key)
    ELSE 0

RECURSIVE decode(_, _)
RECURSIVE decodeElems(_, _, _, _, _)
RECURSIVE decodeMembers(_, _, _, _)

elemDecoded(els, k, t, acc, bad, r) ==
    decodeElems(els, k + 1, t, Append(acc, r.val), bad \/ r.bad)

\* an array into a slice: the slice is emptied, each element appended
decodeElems(els, k, t, acc, bad) ==
    IF k > Len(els) THEN Dec(SliceV(t, acc), bad)
    ELSE elemDecoded(els, k, t, acc, bad, decode(els[k], Zero(Elem(t))))

memberDecoded(j, k, cur, bad, i, r) ==
    decodeMembers(j, k + 1, [cur EXCEPT !.el[i] = r.val], bad \/ r.bad)

memberFor(j, k, cur, bad, i) ==
    IF i = 0 THEN decodeMembers(j, k + 1, cur, bad)
    ELSE memberDecoded(j, k, cur, bad, i, decode(j.el[k], cur.el[i]))

\* an object into a struct: each member into the field its key names, a key
\* that names no field passed over
decodeMembers(j, k, cur, bad) ==
    IF k > Len(j.keys) THEN Dec(cur, bad)
    ELSE memberFor(j, k, cur, bad, fieldFor(cur.t, j.keys[k]))

pointerDecoded(t, r) == Dec(PtrV(t, r.val), r.bad)

\* the value cur of the destination after j is decoded into it
decode(j, cur) ==
    IF j.k = "null"
    THEN IF Kind(cur.t) \in {"ptr", "slice"} THEN Dec(NilV(cur.t), FALSE) ELSE Dec(cur, FALSE)
    ELSE IF Kind(cur.t) = "ptr"
    THEN pointerDecoded(cur.t, decode(j, IF cur.nil THEN Zero(Elem(cur.t)) ELSE cur.el[1]))
    ELSE IF Kind(cur.t) = "string"
    THEN IF j.k = "str" THEN Dec(StrV(j.s), FALSE) ELSE Dec(cur, TRUE)
    ELSE IF Kind(cur.t) = "int"
    THEN IF j.k = "num" THEN Dec(IntV(DigitsValue(j.s, 0)), FALSE) ELSE Dec(cur, TRUE)
    ELSE IF Kind(cur.t) = "slice"
    THEN IF j.k = "arr" THEN decodeElems(j.el, 1, cur.t, <<>>, FALSE) ELSE Dec(cur, TRUE)
    ELSE IF Kind(cur.t) = "struct"
    THEN IF j.k = "obj" THEN decodeMembers(j, 1, cur, FALSE) ELSE Dec(cur, TRUE)
    ELSE Dec(cur, TRUE)

decoded(d) ==
    [val |-> d.val, err |-> IF d.bad THEN "json: cannot unmarshal" ELSE "none"]

textParsed(r, cur) ==
    IF ~r.ok THEN [val |-> cur, err |-> "json: syntax error"]
    ELSE decoded(decode(r.v, cur))

\* json.Unmarshal(text, &cur): the text is checked as a whole first, then
\* decoded into cur
Unmarshal(text, cur) == textParsed(parseText(text), cur)

(***************************************************************************)
(* The state: the two process-wide registries, the records the client      *)
(* holds (cells, addressed by the pointers it passes), and the last call   *)
(* of the library with what it did.  For the client that calls the library *)
(* from several goroutines: where each goroutine is in its MapStructs call *)
(* (goroutine), and the registration in progress (registering).            *)
(***************************************************************************)
VARIABLES transformerRegistry, validatorRegistry, cells, call, ncalls,
          goroutine, registering

vars == <<transformerRegistry, validatorRegistry, cells, call, ncalls,
          goroutine, registering>>

\* Go maps as functions
EmptyMap == [x \in {} |-> <<>>]
Put(m, k, v) == [x \in (DOMAIN m) \cup {k} |-> IF x = k THEN v ELSE m[x]]

(***************************************************************************)
(* What a call does is recorded as a sequence of events: a validator       *)
(* called (fn, arg, val, ok), a transformer called (fn, val, out), a slot  *)
(* assigned (val), each with the path of the source field it is done for   *)
(* and, for an assignment, the path dpath of the slot; to tells the        *)
(* destination record from the temporary element of a converted slice.     *)
(***************************************************************************)
Ev(ev, path, dpath, fn, arg, val, out, ok, to) ==
    [ev |-> ev, path |-> path, dpath |-> dpath, fn |-> fn, arg |-> arg,
     val |-> val, out |-> out, ok |-> ok, to |-> to]
ValidateEv(path, fn, arg, val, ok) == Ev("validate", path, <<>>, fn, arg, val, NoV, ok, "none")
TransformEv(path, fn, val, out)    == Ev("transform", path, <<>>, fn, <<>>, val, out, TRUE, "none")
WriteEv(path, dpath, val, to)      == Ev("write", path, dpath, "", <<>>, val, NoV, TRUE, to)

\* the outcome of a piece of the mapping: the destination as it now is,
\* the error (kind "none" when there is none) and the events so far
Res(dest, err, log) == [dest |-> dest, err |-> err, log |-> log]

\* getFieldName(field, "json")
getFieldName(field) ==
    IF field.json = <<>> \/ field.json = <<"-">>
    THEN <<>>
    ELSE Split(field.json, ",")[1]

\* buildDestinationFieldMap keeping the first field of a logical name
buildDestinationFieldMap_firstWins(t) ==
    LET named == {i \in 1..Len(Fields(t)) : getFieldName(Fields(t)[i]) # <<>>}
    IN  [name \in {getFieldName(Fields(t)[i]) : i \in named} |->
            CHOOSE i \in named :
               /\ getFieldName(Fields(t)[i]) = name
               /\ \A j \in named : getFieldName(Fields(t)[j]) = name => i <= j]

\* buildDestinationFieldMap: logical name -> index of the destination field
RECURSIVE buildDestinationFieldMapFrom(_, _, _)
buildDestinationFieldMapFrom(t, i, fieldMap) ==
    IF i > Len(Fields(t)) THEN fieldMap
    ELSE LET fieldName == getFieldName(Fields(t)[i])
         IN  buildDestinationFieldMapFrom(t, i + 1,
                 IF fieldName # <<>> THEN Put(fieldMap, fieldName, i) ELSE fieldMap)

buildDestinationFieldMap(t) == buildDestinationFieldMapFrom(t, 1, EmptyMap)

\* parseTransformers passing over the names that are not registered
RECURSIVE parseTransformersSkipFrom(_, _, _)
parseTransformersSkipFrom(nameList, i, transformerList) ==
    IF i > Len(nameList) THEN [list |-> transformerList, err |-> NoErr]
    ELSE LET name == TrimSpace(nameList[i])
         IN  parseTransformersSkipFrom(nameList, i + 1,
                 IF name \in DOMAIN transformerRegistry
                 THEN Append(transformerList, transformerRegistry[name])
                 ELSE transformerList)

parseTransformers_skip(names) == parseTransformersSkipFrom(Split(names, ","), 1, <<>>)

\* parseTransformers looking the names up in the registry as it was at the
\* call before, once there has been one
RECURSIVE parseTransformersCachedFrom(_, _, _)
parseTransformersCachedFrom(nameList, i, transformerList) ==
    IF i > Len(nameList) THEN [list |-> transformerList, err |-> NoErr]
    ELSE LET name   == TrimSpace(nameList[i])
             cached == IF call.op = "MapStructs" THEN call.treg ELSE transformerRegistry
         IN  IF name \in DOMAIN cached
             THEN parseTransformersCachedFrom(nameList, i + 1,
                      Append(transformerList, cached[name]))
             ELSE [list |-> <<>>,
                   err |-> Err("transformerNotFound", name, "transformer '%s' not found", <<>>, <<>>)]

parseTransformers_cached(names) == parseTransformersCachedFrom(Split(names, ","), 1, <<>>)

\* parseTransformers: the functions registered under the listed names
RECURSIVE parseTransformersFrom(_, _, _)
parseTransformersFrom(nameList, i, transformerList) ==
    IF i > Len(nameList) THEN [list |-> transformerList, err |-> NoErr]
    ELSE LET name == TrimSpace(nameList[i])
         IN  IF name \in DOMAIN transformerRegistry
             THEN parseTransformersFrom(nameList, i + 1,
                      Append(transformerList, transformerRegistry[name]))
             ELSE [list |-> <<>>,
                   err |-> Err("transformerNotFound", name, "transformer '%s' not found", <<>>, <<>>)]

parseTransformers(names) == parseTransformersFrom(Split(names, ","), 1, <<>>)

\* findTransformers: logical name -> transformer list, for the tagged fields
RECURSIVE findTransformersFrom(_, _, _)
findTransformersFrom(t, i, transformers) ==
    IF i > Len(Fields(t)) THEN [map |-> transformers, err |-> NoErr]
    ELSE LET field == Fields(t)[i]
         IN  IF field.transformer # <<>>
             THEN LET jsonName == getFieldName(field)
                      parsed   == parseTransformers(field.transformer)
                  IN  IF parsed.err.kind # "none"
                      THEN [map |-> EmptyMap, err |-> parsed.err]
                      ELSE findTransformersFrom(t, i + 1, Put(transformers, jsonName, parsed.list))
             ELSE findTransformersFrom(t, i + 1, transformers)

findTransformers(t) == findTransformersFrom(t, 1, EmptyMap)

\* parseFieldValidators: each entry "name:arg" becomes the registered function
\* closed over its argument
RECURSIVE parseFieldValidatorsFrom(_, _, _)
parseFieldValidatorsFrom(validatorEntries, i, validators) ==
    IF i > Len(validatorEntries) THEN [list |-> validators, err |-> NoErr]
    ELSE LET parts         == SplitN2(validatorEntries[i], ":")
             validatorName == TrimSpace(parts[1])
             arg           == IF Len(parts) > 1 THEN TrimSpace(parts[2]) ELSE <<>>
         IN  IF validatorName \notin DOMAIN validatorRegistry
             THEN [list |-> <<>>,
                   err |-> Err("validatorNotFound", validatorName, "validator '%s' not found", <<>>, <<>>)]
             ELSE parseFieldValidatorsFrom(validatorEntries, i + 1,
                      Append(validators, [fn |-> validatorRegistry[validatorName], arg |-> arg]))

parseFieldValidators(validatorSpec) ==
    parseFieldValidatorsFrom(Split(validatorSpec, ","), 1, <<>>)

\* findValidators: logical name -> validator list, for the tagged fields
RECURSIVE findValidatorsFrom(_, _, _)
findValidatorsFrom(t, i, validators) ==
    IF i > Len(Fields(t)) THEN [map |-> validators, err |-> NoErr]
    ELSE LET field == Fields(t)[i]
         IN  IF field.validator = <<>>
             THEN findValidatorsFrom(t, i + 1, validators)
             ELSE LET jsonName == getFieldName(field)
                      parsed   == parseFieldValidators(field.validator)
                  IN  IF parsed.err.kind # "none"
                      THEN [map |-> EmptyMap,
                            err |-> Err("validatorParse", jsonName,
                                        "error parsing validators for field '%s': validator '%s' not found",
                                        parsed.err.name, <<>>)]
                      ELSE findValidatorsFrom(t, i + 1, Put(validators, jsonName, parsed.list))

findValidators(t) == findValidatorsFrom(t, 1, EmptyMap)

RECURSIVE runValidators(_, _, _, _, _)

\* a validator whose failure is passed over
validatorReturned_goOn(fieldValidators, k, value, path, log, cause) ==
    runValidators(fieldValidators, k + 1, value, path,
        Append(log, ValidateEv(path, fieldValidators[k].fn, fieldValidators[k].arg,
                               value, cause.kind = "none")))

\* what the validator loop does with what validator k returned: a failure
\* ends the loop, otherwise the next validator is called
validatorReturned(fieldValidators, k, value, path, log, cause) ==
    IF cause.kind # "none"
    THEN [err |-> cause,
          log |-> Append(log, ValidateEv(path, fieldValidators[k].fn,
                                         fieldValidators[k].arg, value, FALSE))]
    ELSE runValidators(fieldValidators, k + 1, value, path,
             Append(log, ValidateEv(path, fieldValidators[k].fn,
                                    fieldValidators[k].arg, value, TRUE)))

\* the validator loop of mapStructsRecursive: call the field's validators in
\* order on the field's value, stop at the first failure
runValidators(fieldValidators, k, value, path, log) ==
    IF k > Len(fieldValidators) THEN [err |-> NoErr, log |-> log]
    ELSE validatorReturned(fieldValidators, k, value, path, log,
             ApplyValidator(fieldValidators[k].fn, value, fieldValidators[k].arg))

\* the transformer loop of setFieldValue: thread the value through the list
RECURSIVE applyTransformers(_, _, _, _, _)
applyTransformers(transformers, k, valueToSet, path, log) ==
    IF k > Len(transformers) THEN [val |-> valueToSet, log |-> log]
    ELSE applyTransformers(transformers, k + 1,
             ApplyTransformer(transformers[k], valueToSet), path,
             Append(log, TransformEv(path, transformers[k], valueToSet,
                                     ApplyTransformer(transformers[k], valueToSet))))

RECURSIVE mapStructsRecursive(_, _, _, _, _, _, _)
RECURSIVE mapFields(_, _, _, _, _, _, _, _, _, _, _)
RECURSIVE setFieldValue(_, _, _, _, _, _, _, _)
RECURSIVE convertSlice(_, _, _, _, _, _, _)

\* destField.Set(convertedSlice), once the elements are converted (c)
setConvertedSlice(destField, path, dpath, to, c) ==
    IF c.err.kind # "none"
    THEN Res(destField, c.err, c.log)
    ELSE Res(SliceV(destField.t, c.dest), NoErr,
             Append(c.log, WriteEv(path, dpath, SliceV(destField.t, c.dest), to)))

\* destField.Set(reflect.ValueOf(valueToSet)), t being the transformed value:
\* reflect.Value.Set panics when the value is not assignable to the slot
setValue(destField, path, dpath, to, t) ==
    IF t.val.t # destField.t
    THEN Res(destField,
             Err("panic", <<>>, "reflect.Set: value is not assignable", <<>>, path), t.log)
    ELSE Res(t.val, NoErr, Append(t.log, WriteEv(path, dpath, t.val, to)))

\* a text that does not decode passed over: the field is left as it was
setDecoded_ignore(destField, path, dpath, to, log, u) ==
    IF u.err # "none"
    THEN Res(destField, NoErr, log)
    ELSE Res(u.val, NoErr, Append(log, WriteEv(path, dpath, u.val, to)))

\* destField.Set of what json.Unmarshal (u) decoded into a fresh value of the
\* destination type; its error is returned and nothing is set
setDecoded(destField, path, dpath, to, log, u) ==
    IF u.err # "none"
    THEN Res(destField, Err("codec", <<>>, u.err, <<>>, path), log)
    ELSE Res(u.val, NoErr, Append(log, WriteEv(path, dpath, u.val, to)))

\* strings.Join
RECURSIVE Join(_, _)
Join(elems, sep) ==
    IF elems = <<>> THEN <<>>
    ELSE IF Len(elems) = 1 THEN elems[1].s
    ELSE elems[1].s \o sep \o Join(Tail(elems), sep)

\* a slice of strings written as its elements joined with commas
encodedText_joined(srcField) ==
    IF Kind(srcField.t) = "slice" /\ Kind(Elem(srcField.t)) = "string"
    THEN Join(srcField.el, <<",">>)
    ELSE Marshal(srcField)

\* json.Marshal(srcField.Interface())
encodedText(srcField) == Marshal(srcField)

\* destField.SetString(text)
setString(path, dpath, to, log, text) ==
    Res(StrV(text), NoErr, Append(log, WriteEv(path, dpath, StrV(text), to)))

\* the pieces of a text between commas, each trimmed, as a slice of type t
splitTrimmed(t, str) ==
    SliceV(t, [k \in 1..Len(Split(str, ",")) |-> StrV(TrimSpace(Split(str, ",")[k]))])

\* a nested struct copied field by field, its tags not looked at
nestedStructs_shallow(srcField, destField, same, path, dpath, to, log) ==
    mapFields(1, srcField, destField, same, buildDestinationFieldMap(destField.t),
              EmptyMap, EmptyMap, path, dpath, to, log)

\* mapStructsRecursive(srcField.Addr(), destField.Addr())
nestedStructs(srcField, destField, same, path, dpath, to, log) ==
    mapStructsRecursive(srcField, destField, same, path, dpath, to, log)

\* every shape left to the fallback
setUnwrapped_fallback(srcField, destField, transformers, same, path, dpath, to, log) ==
    setValue(destField, path, dpath, to,
             applyTransformers(transformers, 1, srcField, path, log))

\* setFieldValue once source and destination pointers are unwrapped: the
\* shape rules in the order of the code.  same tells that source and
\* destination are one and the same slot.
setUnwrapped(srcField, destField, transformers, same, path, dpath, to, log) ==
    IF Kind(srcField.t) = "struct" /\ Kind(destField.t) = "struct"
    THEN nestedStructs(srcField, destField, same, path, dpath, to, log)
    ELSE IF Kind(srcField.t) = "slice" /\ Kind(destField.t) = "slice"
    THEN setConvertedSlice(destField, path, dpath, to,
             convertSlice(srcField, destField.t, transformers, 1, <<>>, path, log))
    ELSE IF Kind(srcField.t) = "string" /\ Kind(destField.t) = "struct"
    THEN setDecoded(destField, path, dpath, to, log,
             Unmarshal(IF srcField.s = <<>> THEN <<"{", "}">> ELSE srcField.s,
                       Zero(destField.t)))
    ELSE IF Kind(srcField.t) = "struct" /\ Kind(destField.t) = "string"
    THEN setString(path, dpath, to, log, encodedText(srcField))
    ELSE IF Kind(srcField.t) = "string" /\ Kind(destField.t) = "slice"
    THEN setDecoded(destField, path, dpath, to, log,
             Unmarshal(IF srcField.s = <<>> THEN <<"[", "]">> ELSE srcField.s,
                       Zero(destField.t)))
    ELSE IF Kind(srcField.t) = "slice" /\ Kind(destField.t) = "string"
    THEN setString(path, dpath, to, log, encodedText(srcField))
    ELSE IF Kind(srcField.t) = "string" /\ Kind(destField.t) = "slice"
            /\ Kind(Elem(destField.t)) = "string"
    THEN Res(splitTrimmed(destField.t, srcField.s), NoErr,
             Append(log, WriteEv(path, dpath, splitTrimmed(destField.t, srcField.s), to)))
    ELSE IF Kind(srcField.t) = "slice" /\ Kind(Elem(srcField.t)) = "string"
            /\ Kind(destField.t) = "string"
    THEN setString(path, dpath, to, log, Join(srcField.el, <<",">>))
    ELSE setValue(destField, path, dpath, to,
             applyTransformers(transformers, 1, srcField, path, log))

\* convertedSlice.Index(k).Set(convertedElem), r being what setFieldValue
\* made of element k
elementConverted(srcField, destType, transformers, k, converted, path, r) ==
    IF r.err.kind # "none"
    THEN Res(converted, r.err, r.log)
    ELSE convertSlice(srcField, destType, transformers, k + 1,
                      Append(converted, r.dest), path, r.log)

\* the slice-to-slice loop of setFieldValue: a fresh element per source
\* element, set through setFieldValue with the field's transformers
convertSlice(srcField, destType, transformers, k, converted, path, log) ==
    IF k > Len(srcField.el) THEN Res(converted, NoErr, log)
    ELSE elementConverted(srcField, destType, transformers, k, converted, path,
             setFieldValue(srcField.el[k], Zero(Elem(destType)), transformers,
                           FALSE, Append(path, k), <<k>>, "temp", log))

\* the destination pointer around what was set behind it
pointerTo(t, r) == Res(PtrV(t, r.dest), r.err, r.log)

\* a nil source pointer leaving the destination field as it is
nilSource_keep(destField, path, dpath, to, log) == Res(destField, NoErr, log)

\* the source pointer is nil: destField.Set(reflect.Zero(destField.Type())),
\* and setFieldValue returns
nilSource(destField, path, dpath, to, log) ==
    Res(Zero(destField.t), NoErr, Append(log, WriteEv(path, dpath, Zero(destField.t), to)))

\* setFieldValue: the pointers are dealt with, then the shape rules apply
setFieldValue(srcField, destField, transformers, same, path, dpath, to, log) ==
    IF Kind(srcField.t) = "ptr" /\ srcField.nil
    THEN nilSource(destField, path, dpath, to, log)
    ELSE IF Kind(destField.t) = "ptr" /\ destField.nil
    THEN \* destField.Set(reflect.New(destField.Type().Elem()))
         pointerTo(destField.t,
             setUnwrapped(IF Kind(srcField.t) = "ptr" THEN srcField.el[1] ELSE srcField,
                          Zero(Elem(destField.t)), transformers, same, path, dpath, to,
                          Append(log, WriteEv(path, dpath,
                                     PtrV(destField.t, Zero(Elem(destField.t))), to))))
    ELSE IF Kind(destField.t) = "ptr"
    THEN pointerTo(destField.t,
             setUnwrapped(IF Kind(srcField.t) = "ptr" THEN srcField.el[1] ELSE srcField,
                          destField.el[1], transformers, same, path, dpath, to, log))
    ELSE setUnwrapped(IF Kind(srcField.t) = "ptr" THEN srcField.el[1] ELSE srcField,
                      destField, transformers, same, path, dpath, to, log)

\* the end of the loop body for source field i, r being what setFieldValue
\* made of destination field j
fieldSet(i, src, dest, same, destMap, transformers, validators, path, dpath, to, j, r) ==
    IF r.err.kind # "none"
    THEN Res([dest EXCEPT !.el[j] = r.dest], r.err, r.log)
    ELSE mapFields(i + 1, src, [dest EXCEPT !.el[j] = r.dest], same, destMap,
                   transformers, validators, path, dpath, to, r.log)

\* the field loop refusing a source field that has no destination field
fieldValidated_strict(i, src, dest, same, destMap, transformers, validators, path, dpath, to, vr) ==
    LET fieldName == getFieldName(Fields(src.t)[i])
    IN  IF vr.err.kind # "none"
        THEN Res(dest, Err("validation", fieldName, vr.err.msg, vr.err.arg, Append(path, i)),
                 vr.log)
        ELSE IF fieldName \in DOMAIN destMap
        THEN fieldSet(i, src, dest, same, destMap, transformers, validators, path, dpath, to,
                 destMap[fieldName],
                 setFieldValue(IF same THEN dest.el[i] ELSE src.el[i],
                               dest.el[destMap[fieldName]],
                               IF fieldName \in DOMAIN transformers
                               THEN transformers[fieldName] ELSE <<>>,
                               same /\ i = destMap[fieldName],
                               Append(path, i), Append(dpath, destMap[fieldName]), to, vr.log))
        ELSE Res(dest, Err("unmapped", fieldName, "no destination field", <<>>, Append(path, i)),
                 vr.log)

\* the loop body for source field i once its validators have run (vr): a
\* failure ends the mapping; otherwise the value is set into the like-named
\* destination field, if there is one
fieldValidated(i, src, dest, same, destMap, transformers, validators, path, dpath, to, vr) ==
    LET fieldName == getFieldName(Fields(src.t)[i])
    IN  IF vr.err.kind # "none"
        THEN Res(dest, Err("validation", fieldName, vr.err.msg, vr.err.arg, Append(path, i)),
                 vr.log)
        ELSE IF fieldName \in DOMAIN destMap
        THEN fieldSet(i, src, dest, same, destMap, transformers, validators, path, dpath, to,
                 destMap[fieldName],
                 setFieldValue(IF same THEN dest.el[i] ELSE src.el[i],
                               dest.el[destMap[fieldName]],
                               IF fieldName \in DOMAIN transformers
                               THEN transformers[fieldName] ELSE <<>>,
                               same /\ i = destMap[fieldName],
                               Append(path, i), Append(dpath, destMap[fieldName]), to, vr.log))
        ELSE mapFields(i + 1, src, dest, same, destMap, transformers, validators,
                       path, dpath, to, vr.log)

\* the field loop of mapStructsRecursive, from source field i on.  When
\* source and destination are the same record (same), a source field is read
\* from the record as the writes so far have left it.
mapFields(i, src, dest, same, destMap, transformers, validators, path, dpath, to, log) ==
    IF i > Len(Fields(src.t)) THEN Res(dest, NoErr, log)
    ELSE IF getFieldName(Fields(src.t)[i]) = <<>>
    THEN mapFields(i + 1, src, dest, same, destMap, transformers, validators,
                   path, dpath, to, log)
    ELSE fieldValidated(i, src, dest, same, destMap, transformers, validators, path, dpath, to,
             IF getFieldName(Fields(src.t)[i]) \in DOMAIN validators
             THEN runValidators(validators[getFieldName(Fields(src.t)[i])], 1,
                                IF same THEN dest.el[i] ELSE src.el[i], Append(path, i), log)
             ELSE [err |-> NoErr, log |-> log])

\* the fields of the level mapped before an unknown validator is reported
pipelinesBuilt_lateCheck(src, dest, same, path, dpath, to, log, ft, fv) ==
    IF ft.err.kind # "none"
    THEN Res(dest, [ft.err EXCEPT !.path = path], log)
    ELSE IF fv.err.kind # "none"
    THEN Res(mapFields(1, src, dest, same, buildDestinationFieldMap(dest.t), ft.map, fv.map,
                       path, dpath, to, log).dest,
             [fv.err EXCEPT !.path = path],
             mapFields(1, src, dest, same, buildDestinationFieldMap(dest.t), ft.map, fv.map,
                       path, dpath, to, log).log)
    ELSE mapFields(1, src, dest, same, buildDestinationFieldMap(dest.t), ft.map, fv.map,
                   path, dpath, to, log)

\* mapStructsRecursive once findTransformers (ft) and findValidators (fv)
\* have returned: either error is returned at once, before the field loop
pipelinesBuilt(src, dest, same, path, dpath, to, log, ft, fv) ==
    IF ft.err.kind # "none"
    THEN Res(dest, [ft.err EXCEPT !.path = path], log)
    ELSE IF fv.err.kind # "none"
    THEN Res(dest, [fv.err EXCEPT !.path = path], log)
    ELSE mapFields(1, src, dest, same, buildDestinationFieldMap(dest.t), ft.map, fv.map,
                   path, dpath, to, log)

\* mapStructsRecursive: build the destination field map and the pipelines of
\* this struct level, then map field by field
mapStructsRecursive(src, dest, same, path, dpath, to, log) ==
    pipelinesBuilt(src, dest, same, path, dpath, to, log,
                   findTransformers(src.t), findValidators(src.t))

(***************************************************************************)
(* The client: the records it holds and the arguments it passes.           *)
(***************************************************************************)
\* texts a client puts into its records
NameChoices == { <<>>, <<"a">>, <<"b","o">> }
CodeChoices == { <<"x">>, <<"w","x","y","z">> }

Leaf(v) == StructV("Leaf", <<StrV(v)>>)

\* texts a client holds in the text fields of a Doc: the empty text, a
\* comma-separated list, JSON arrays and objects, and texts cut short
CsvTexts ==
    << <<>>,
       <<"a", ",", " ", "b", ",", "c">>,
       <<"[", "\"", "a", "\"", ",", " ", "\"", "b", "\"", "]">> >>
RawTexts ==
    << <<>>,
       <<"{", "\"", "v", "\"", ":", "\"", "x", "\"", "}">>,
       <<"{", "\"", "v", "\"", ":">>,
       <<"{", "\"", "V", "\"", ":", "\"", "y", "\"", ",", "\"", "k", "\"", ":", "[", "1", "]", "}">> >>

\* the Doc a client holds, its texts chosen along with p and q
DocOf(p, q) ==
    LET short == q = <<"x">>
        c == IF p = <<>> THEN 1 ELSE IF Len(p) = 1 THEN 2 ELSE 3
        r == IF p = <<>> THEN (IF short THEN 1 ELSE 2) ELSE (IF short THEN 3 ELSE 4)
    IN  StructV("Doc", <<IF short THEN NilV("*string") ELSE PtrV("*string", StrV(q)),
                         IF short THEN SliceV("[]string", <<StrV(<<"g","o">>), StrV(<<"d","e","v">>)>>)
                                  ELSE NilV("[]string"),
                         Leaf(p),
                         SliceV("[]Leaf", <<Leaf(q)>>),
                         StrV(CsvTexts[c]),
                         StrV(RawTexts[r])>>)

\* the records of the client: one cell per variable it declares
InitCells(p, q) ==
    LET short == q = <<"x">>
    IN  << StructV("User", <<StrV(p), StrV(q), StrV(<<"n","k">>), IntV(7)>>),
           StructV("UserDTO", <<StrV(<<"o","l","d">>), StrV(<<>>), IntV(0),
                                StrV(<<"k","e","e","p">>), StrV(<<"e">>)>>),
           StructV("Order", <<StrV(<<"i","d">>),
                              StructV("Inner", <<StrV(p), StrV(<<"9","0">>)>>),
                              IF short THEN SliceV("[]string", <<StrV(<<"g","o">>), StrV(<<"d","e","v">>)>>)
                                       ELSE NilV("[]string"),
                              SliceV("[]Inner",
                                     <<StructV("Inner", <<StrV(<<"o","k">>), StrV(<<"1">>)>>),
                                       StructV("Inner", <<StrV(IF short THEN <<"o","n">> ELSE <<"n">>),
                                                          StrV(<<"2">>)>>)>>),
                              IF short THEN PtrV("*string", StrV(<<"m">>))
                                       ELSE NilV("*string")>>),
           StructV("OrderDTO", <<StrV(<<"o","l","d">>),
                                 StructV("InnerDTO", <<StrV(<<>>), StrV(<<"o">>)>>),
                                 SliceV("[]string", <<StrV(<<"q">>)>>),
                                 NilV("[]InnerDTO"),
                                 IF p = <<>> THEN NilV("*string")
                                             ELSE PtrV("*string", StrV(<<"o">>))>>),
           StructV("Dup", <<StrV(<<"a","b">>), StrV(p)>>),
           StructV("DupDTO", <<StrV(<<"o","1">>), StrV(<<"o","2">>)>>),
           StructV("Plain", <<StrV(p), IntV(3),
                              IF short THEN PtrV("*string", StrV(q)) ELSE NilV("*string"),
                              IF short THEN NilV("[]string")
                                       ELSE SliceV("[]string", <<StrV(q), StrV(p)>>),
                              Leaf(q),
                              SliceV("[]Leaf", <<Leaf(p), Leaf(q)>>)>>),
           StructV("Plain", <<StrV(<<"z">>), IntV(9), PtrV("*string", StrV(<<"o">>)),
                              SliceV("[]string", <<StrV(<<"q">>), StrV(<<"r">>), StrV(<<"s">>)>>),
                              Leaf(<<"o">>), NilV("[]Leaf")>>),
           StrV(<<"s","t","r">>),
           StructV("Mis", <<IntV(5)>>),
           StructV("DupDTO", <<StrV(p), StrV(q)>>),
           DocOf(p, q),
           StructV("DocDTO", <<StrV(<<"o","l","d">>), StrV(<<"o","l","d">>), StrV(<<"o","l","d">>),
                               StrV(<<"o","l","d">>), SliceV("[]string", <<StrV(<<"q">>)>>),
                               Leaf(<<"o">>)>>),
           StructV("Alt", <<StrV(RawTexts[IF p = <<>> THEN 3 ELSE IF Len(p) = 1 THEN 2 ELSE 1]),
                            IF short THEN SliceV("[]string", <<StrV(q)>>)
                                     ELSE NilV("[]string")>>),
           StructV("AltDTO", <<NilV("*Leaf"), SliceV("[]int", <<IntV(1)>>)>>) >>

\* an argument of MapStructs: a pointer to a cell, the value of a cell
\* (not a pointer), a typed nil pointer, or the nil interface
PtrTo(c) == [form |-> "ptr", cell |-> c]
ValOf(c) == [form |-> "value", cell |-> c]
NilPtr   == [form |-> "nilptr", cell |-> 0]
NilArg   == [form |-> "nil", cell |-> 0]

\* reflect.ValueOf(arg).Kind() and reflect.ValueOf(arg).Elem().Kind()
ArgKind(arg) ==
    CASE arg.form \in {"ptr", "nilptr"} -> "ptr"
      [] arg.form = "value" -> Kind(cells[arg.cell].t)
      [] OTHER -> "invalid"

ArgElemKind(arg) ==
    IF arg.form = "ptr" THEN Kind(cells[arg.cell].t) ELSE "invalid"

\* isValidStructPointer taking a struct passed by value as well
isValidStructPointer_byValue(arg) ==
    \/ ArgKind(arg) = "ptr" /\ ArgElemKind(arg) = "struct"
    \/ arg.form = "value" /\ ArgKind(arg) = "struct"

\* isValidStructPointer
isValidStructPointer(arg) == ArgKind(arg) = "ptr" /\ ArgElemKind(arg) = "struct"

\* the calls MapStructs(src, dest) the client makes
CallPairs ==
    { <<PtrTo(1), PtrTo(2)>>, <<PtrTo(3), PtrTo(4)>>, <<PtrTo(5), PtrTo(6)>>,
      <<PtrTo(5), PtrTo(5)>>, <<PtrTo(1), PtrTo(1)>>, <<PtrTo(7), PtrTo(8)>>,
      <<PtrTo(11), PtrTo(6)>>, <<PtrTo(1), PtrTo(10)>>, <<PtrTo(1), PtrTo(4)>>,
      <<PtrTo(12), PtrTo(13)>>, <<PtrTo(14), PtrTo(15)>>,
      <<ValOf(1), PtrTo(2)>>, <<PtrTo(1), ValOf(2)>>, <<PtrTo(9), PtrTo(2)>>,
      <<PtrTo(1), PtrTo(9)>>, <<NilPtr, PtrTo(2)>>, <<PtrTo(1), NilPtr>>,
      <<PtrTo(1), NilArg>> }

\* the registrations the client makes
TransformerRegs == { <<sUp, "toUpperCase">>, <<sEx, "addExclamation">>, <<sTw, "repeatTwice">> }
ValidatorRegs   == { <<sLen, "minLength">> }

\* the last call: its arguments (src and dest of a mapping, arg and spec of
\* ValidateSingleField, text and dest of MapJsonStruct), the cells and the
\* registries as they were when it
\* began, the error it returned, the events it went through and the value
\* it returned (ret)
NoCall ==
    [op |-> "none", src |-> NilArg, dest |-> NilArg, pre |-> <<>>,
     treg |-> EmptyMap, vreg |-> EmptyMap, err |-> NoErr, log |-> <<>>,
     arg |-> NoV, spec |-> <<>>, ret |-> NoV, text |-> <<>>]

\* the goroutines of the client that map concurrently, and the pair of
\* records each of them maps: no record is passed to two of them
Goroutines == {1, 2}
PairOf(g) == IF g = 1 THEN <<PtrTo(1), PtrTo(2)>> ELSE <<PtrTo(3), PtrTo(4)>>

\* a goroutine that has not called MapStructs yet: where it is (pc), the
\* cells as they were when it called (pre), the pipelines it has built for
\* the top level (ft, fv), and what its call returned (err) and did (log)
NotBuilt == [map |-> EmptyMap, err |-> NoErr]
Idle == [pc |-> "idle", pre |-> <<>>, ft |-> NotBuilt, fv |-> NotBuilt,
         err |-> NoErr, log |-> <<>>]

\* no registration in progress (pending), none that was not over when a
\* mapping call began (late), no read of a registry while it was written
\* (raced), and the runtime has not stopped the process for one (fatal)
NotRegistering == [pending |-> <<>>, late |-> FALSE, raced |-> FALSE, fatal |-> FALSE]

Init ==
    /\ goroutine = [g \in Goroutines |-> Idle]
    /\ registering = NotRegistering
    /\ transformerRegistry = EmptyMap
    /\ validatorRegistry = RegistryOf(BuiltinValidators)
    /\ \E p \in NameChoices, q \in CodeChoices : cells = InitCells(p, q)
    /\ call = NoCall
    /\ ncalls = 0

\* RegisterTransformer(name, f)
RegisterTransformer(name, f) ==
    /\ transformerRegistry' = Put(transformerRegistry, name, f)
    /\ UNCHANGED <<validatorRegistry, cells, call, ncalls, goroutine, registering>>

\* RegisterValidator(name, f)
RegisterValidator(name, f) ==
    /\ validatorRegistry' = Put(validatorRegistry, name, f)
    /\ UNCHANGED <<transformerRegistry, cells, call, ncalls, goroutine, registering>>

\* MapStructs giving the destination back as it was when the mapping fails
mapped_rollback(dest, r) ==
    [cells |-> IF r.err.kind # "none" THEN cells ELSE [cells EXCEPT ![dest.cell] = r.dest],
     err |-> r.err, log |-> r.log]

\* MapStructs handing back an empty destination when the mapping fails
mapped_cleared(dest, r) ==
    [cells |-> [cells EXCEPT ![dest.cell] = IF r.err.kind # "none" THEN Zero(r.dest.t)
                                            ELSE r.dest],
     err |-> r.err, log |-> r.log]

\* what mapStructsRecursive (r) has left in the destination cell and returned
mapped(dest, r) ==
    [cells |-> [cells EXCEPT ![dest.cell] = r.dest], err |-> r.err, log |-> r.log]

\* what MapStructs(src, dest) returns and leaves in the cells
MapStructsResult(src, dest) ==
    IF ~isValidStructPointer(src) \/ ~isValidStructPointer(dest)
    THEN [cells |-> cells,
          err   |-> Err("precondition", <<>>,
                        "both source and destination must be pointer to a struct", <<>>, <<>>),
          log   |-> <<>>]
    ELSE mapped(dest, mapStructsRecursive(cells[src.cell], cells[dest.cell],
                                          src.cell = dest.cell, <<>>, <<>>, "dest", <<>>))

\* MapStructs(src, dest), the client making no more than bound calls
MapStructsWithin(bound, src, dest) ==
    /\ ncalls < bound
    /\ \E r \in {MapStructsResult(src, dest)} :
          /\ cells' = r.cells
          /\ call' = [op |-> "MapStructs", src |-> src, dest |-> dest, pre |-> cells,
                      treg |-> transformerRegistry, vreg |-> validatorRegistry,
                      err |-> r.err, log |-> r.log,
                      arg |-> NoV, spec |-> <<>>, ret |-> NoV, text |-> <<>>]
    /\ ncalls' = ncalls + 1
    /\ UNCHANGED <<transformerRegistry, validatorRegistry, goroutine, registering>>

\* MapStructs(src, dest)
MapStructs(src, dest) == MapStructsWithin(MaxCalls, src, dest)

(***************************************************************************)
(* ValidateSingleField.                                                    *)
(***************************************************************************)
sValidatorsKey   == <<"v","a","l","i","d","a","t","o","r","s",":","'">>
sValidatorKey    == <<"v","a","l","i","d","a","t","o","r",":","'">>
sTransformersKey == <<"t","r","a","n","s","f","o","r","m","e","r","s",":","'">>

\* strings.Index: the index, from 0, of the first sub in s, or -1
RECURSIVE IndexFrom(_, _, _)
IndexFrom(s, sub, k) ==
    IF k + Len(sub) > Len(s) THEN -1
    ELSE IF SubSeq(s, k + 1, k + Len(sub)) = sub THEN k
    ELSE IndexFrom(s, sub, k + 1)

Index(s, sub) == IndexFrom(s, sub, 0)

\* s[lo:hi], which panics when the bounds are out of range
Slice(s, lo, hi) ==
    IF 0 <= lo /\ lo <= hi /\ hi <= Len(s)
    THEN [ok |-> TRUE, s |-> SubSeq(s, lo + 1, hi)]
    ELSE [ok |-> FALSE, s |-> <<>>]

NoSection == [ok |-> TRUE, s |-> <<>>]

\* validators = input[valStart+len("validator:'")+1 : valEnd+1]
validatorsTo(input, valStart, valEnd) ==
    IF valEnd # -1 THEN Slice(input, valStart + Len(sValidatorKey) + 1, valEnd + 1)
    ELSE NoSection

validatorsSection(input, valStart) ==
    IF valStart # -1
    THEN validatorsTo(input, valStart,
             Index(SubSeq(input, valStart + Len(sValidatorsKey) + 1, Len(input)), <<"'">>)
               + valStart + Len(sValidatorKey))
    ELSE NoSection

\* transformers = input[transStart+len("transformers:'") : transEnd]
transformersTo(input, transStart, transEnd) ==
    IF transEnd # -1 THEN Slice(input, transStart + Len(sTransformersKey), transEnd)
    ELSE NoSection

transformersSection(input, transStart) ==
    IF transStart # -1
    THEN transformersTo(input, transStart,
             Index(SubSeq(input, transStart + Len(sTransformersKey) + 1, Len(input)), <<"'">>)
               + transStart + Len(sTransformersKey))
    ELSE NoSection

\* parseSingleFieldValidatorAndTransformerSpec: the texts between the quotes
\* of the two sections; ok is FALSE when a slice expression panics
sectionsOf(vs, ts) ==
    [ok |-> vs.ok /\ ts.ok, validators |-> vs.s, transformers |-> ts.s]

parseSingleFieldValidatorAndTransformerSpec(input) ==
    sectionsOf(validatorsSection(input, Index(input, sValidatorsKey)),
               transformersSection(input, Index(input, sTransformersKey)))

\* what ValidateSingleField returns: the value, the error, and the events
Returned(value, err, log) == [ret |-> value, err |-> err, log |-> log]

transformersApplied(t) == Returned(t.val, NoErr, t.log)

\* the transformers are looked up (pt) and applied in order
transformersParsed(value, log, pt) ==
    IF pt.err.kind # "none" THEN Returned(value, pt.err, log)
    ELSE transformersApplied(applyTransformers(pt.list, 1, value, <<>>, log))

transformersPart(value, sp, log) ==
    IF Len(sp.transformers) > 0
    THEN transformersParsed(value, log, parseTransformers(sp.transformers))
    ELSE Returned(value, NoErr, log)

\* the validator loop going on to the transformers after a failure
validatorsRun_goOn(value, sp, vr) == transformersPart(value, sp, vr.log)

\* the validators were called (vr): the first failure is returned with the
\* value as it was given
validatorsRun(value, sp, vr) ==
    IF vr.err.kind # "none" THEN Returned(value, vr.err, vr.log)
    ELSE transformersPart(value, sp, vr.log)

validatorsParsed(value, sp, pv) ==
    IF pv.err.kind # "none" THEN Returned(value, pv.err, <<>>)
    ELSE validatorsRun(value, sp, runValidators(pv.list, 1, value, <<>>, <<>>))

specParsed(value, sp) ==
    IF ~sp.ok
    THEN Returned(NoV, Err("panic", <<>>, "slice bounds out of range", <<>>, <<>>), <<>>)
    ELSE IF Len(sp.validators) > 0
    THEN validatorsParsed(value, sp, parseFieldValidators(sp.validators))
    ELSE transformersPart(value, sp, <<>>)

ValidateSingleFieldResult(value, validatorAndTransformerSpec) ==
    specParsed(value, parseSingleFieldValidatorAndTransformerSpec(validatorAndTransformerSpec))

\* ValidateSingleField(value, validatorAndTransformerSpec)
ValidateSingleField(value, validatorAndTransformerSpec) ==
    /\ ncalls < MaxCalls
    /\ \E r \in {ValidateSingleFieldResult(value, validatorAndTransformerSpec)} :
          call' = [op |-> "ValidateSingleField", src |-> NilArg, dest |-> NilArg,
                   pre |-> cells, treg |-> transformerRegistry,
                   vreg |-> validatorRegistry, err |-> r.err, log |-> r.log,
                   arg |-> value, spec |-> validatorAndTransformerSpec, ret |-> r.ret,
                   text |-> <<>>]
    /\ ncalls' = ncalls + 1
    /\ UNCHANGED <<transformerRegistry, validatorRegistry, cells, goroutine, registering>>

\* the values and the specs a client passes to ValidateSingleField
FieldValues == {StrV(x) : x \in NameChoices \cup CodeChoices} \cup {IntV(7)}

FieldSpecs ==
    { <<>>,
      sValidatorsKey \o sRequired \o <<",", " ">> \o sMinLength \o <<":", "2", "'", " ">>
        \o sTransformersKey \o sUp \o <<",">> \o sEx \o <<"'">>,
      sTransformersKey \o sTw \o <<",", " ">> \o sUp \o <<"'", " ">>
        \o sValidatorsKey \o sMaxLength \o <<":", "3", "'">>,
      sValidatorsKey \o sLen \o <<":", "2", ",">> \o sRequired \o <<"'">>,
      sTransformersKey \o sEx \o <<"'">>,
      sValidatorsKey \o <<"'">> \o sTransformersKey \o sUp \o <<"'">>,
      sValidatorsKey \o sRequired,
      sValidatorsKey \o sRequired \o <<"'">> \o sTransformersKey \o sUp }

NextField ==
    \/ \E r \in TransformerRegs : RegisterTransformer(r[1], r[2])
    \/ \E r \in ValidatorRegs : RegisterValidator(r[1], r[2])
    \/ \E v \in FieldValues, sp \in FieldSpecs : ValidateSingleField(v, sp)

\* the client that calls ValidateSingleField
SpecField == Init /\ [][NextField]_vars

(***************************************************************************)
(* MapJsonStruct.                                                          *)
(***************************************************************************)
\* what a call leaves in the cell the target points to (val) and returns
jsonResult(target, val, err, log) ==
    [cells |-> [cells EXCEPT ![target.cell] = val], err |-> err, log |-> log]

\* MapStructs(target, target) on what was decoded
selfMapped(target, u) ==
    IF ~isValidStructPointer(target)
    THEN jsonResult(target, u.val,
                    Err("precondition", <<>>,
                        "both source and destination must be pointer to a struct", <<>>, <<>>),
                    <<>>)
    ELSE mapped(target, mapStructsRecursive(u.val, u.val, TRUE, <<>>, <<>>, "dest", <<>>))

\* the mapping run whether or not the text could be decoded
jsonDecoded_mapAnyway(target, u) == selfMapped(target, u)

\* json.Unmarshal has returned (u), having left in the pointee what it
\* decoded: its error is returned, otherwise MapStructs(target, target)
jsonDecoded(target, u) ==
    IF u.err # "none"
    THEN jsonResult(target, u.val, Err("codec", <<>>, u.err, <<>>, <<>>), <<>>)
    ELSE selfMapped(target, u)

\* what MapJsonStruct(jsonStr, target) returns and leaves in the cells;
\* json.Unmarshal refuses a nil pointer
MapJsonStructResult(jsonStr, target) ==
    IF ArgKind(target) # "ptr"
    THEN [cells |-> cells,
          err   |-> Err("target", <<>>, "target must be a pointer to a struct", <<>>, <<>>),
          log   |-> <<>>]
    ELSE IF target.form = "nilptr"
    THEN [cells |-> cells,
          err   |-> Err("codec", <<>>, "json: Unmarshal(nil)", <<>>, <<>>),
          log   |-> <<>>]
    ELSE jsonDecoded(target, Unmarshal(jsonStr, cells[target.cell]))

\* MapJsonStruct(jsonStr, target)
MapJsonStruct(jsonStr, target) ==
    /\ ncalls < MaxCalls
    /\ \E r \in {MapJsonStructResult(jsonStr, target)} :
          /\ cells' = r.cells
          /\ call' = [op |-> "MapJsonStruct", src |-> target, dest |-> target, pre |-> cells,
                      treg |-> transformerRegistry, vreg |-> validatorRegistry,
                      err |-> r.err, log |-> r.log,
                      arg |-> NoV, spec |-> <<>>, ret |-> NoV, text |-> jsonStr]
    /\ ncalls' = ncalls + 1
    /\ UNCHANGED <<transformerRegistry, validatorRegistry, goroutine, registering>>

\* the texts and the targets a client passes to MapJsonStruct
sNameKey == <<"\"", "n", "a", "m", "e", "\"", ":">>

JsonTexts ==
    << <<"{">> \o sNameKey \o <<"\"", "b", "o", "\"", ",", "\"", "a", "g", "e", "\"", ":", "3", "}">>,
       <<"{">> \o sNameKey \o <<"\"", "b", "o", "\"", ",", " ", "\"", "a", "g", "e", "\"", ":",
                                " ", "\"", "x", "\"", "}">>,
       <<"{">> \o sNameKey,
       <<"\"", "h", "i", "\"">>,
       <<"{">> \o sNameKey \o <<"\"", "a", "\"", "}">>,
       <<"{", "\"", "i", "d", "\"", ":", "\"", "k", "\"", ",", "\"", "o", "w", "n", "e", "r", "\"",
         ":", "{", "\"", "e", "m", "a", "i", "l", "\"", ":", "\"", "a", "b", "\"", "}", ",",
         "\"", "m", "e", "m", "o", "\"", ":", "\"", "m", "\"", "}">> >>

JsonTargets == {PtrTo(1), PtrTo(3), PtrTo(5), PtrTo(9), ValOf(1), NilPtr, NilArg}

NextJson ==
    \/ \E r \in TransformerRegs : RegisterTransformer(r[1], r[2])
    \/ \E r \in ValidatorRegs : RegisterValidator(r[1], r[2])
    \/ \E k \in DOMAIN JsonTexts, target \in JsonTargets : MapJsonStruct(JsonTexts[k], target)

\* the client that calls MapJsonStruct
SpecJson == Init /\ [][NextJson]_vars

(***************************************************************************)
(* Concurrent callers.  The code holds no lock: a registration is a write  *)
(* of a map and a mapping call reads the maps when it builds the pipelines *)
(* of a struct level, the top level first and a nested level when the      *)
(* field loop reaches it.                                                  *)
(***************************************************************************)
\* the registry a registration in progress is writing
Writing == IF registering.pending = <<>> THEN "none" ELSE registering.pending[1]

\* the registries findTransformers and findValidators read for the top
\* level of type t: findValidators is not called when findTransformers fails
readsBuilding(t, ft) ==
    {x \in {"transformer"} : \E i \in DOMAIN Fields(t) : Fields(t)[i].transformer # <<>>}
    \cup {x \in {"validator"} :
            ft.err.kind = "none" /\ \E i \in DOMAIN Fields(t) : Fields(t)[i].validator # <<>>}

\* the registries the field loop that returned r has read: those of the
\* nested levels it entered
readsMapping(r) ==
    IF \/ \E j \in DOMAIN r.log : Len(r.log[j].path) > 1
       \/ r.err.kind \in {"transformerNotFound", "validatorParse"} /\ r.err.path # <<>>
    THEN IF r.err.kind = "transformerNotFound" THEN {"transformer"}
         ELSE {"transformer", "validator"}
    ELSE {}

\* a step that read the registries in reads: reading the one being written
\* is a data race, for which the runtime may stop the process (fatal error:
\* concurrent map read and map write) or not
afterRead(reads, fatal) ==
    [registering EXCEPT !.raced = @ \/ Writing \in reads,
                        !.fatal = @ \/ (Writing \in reads /\ fatal)]

\* a mapping that leaves its result in a record all calls share
fieldsMapped_shared(g, r) ==
    [cells EXCEPT ![PairOf(g)[2].cell] = r.dest, ![9] = StrV(<<"t", "m", "p">>)]

\* the cells once the field loop of goroutine g has returned r
fieldsMapped(g, r) == [cells EXCEPT ![PairOf(g)[2].cell] = r.dest]

\* RegisterTransformer or RegisterValidator is called: the write begins
RegisterBegin(kind, name, f) ==
    /\ ~registering.fatal
    /\ registering.pending = <<>>
    /\ registering' = [registering EXCEPT
                         !.pending = <<kind, name, f>>,
                         !.late = @ \/ \E g \in Goroutines : goroutine[g].pc # "idle"]
    /\ UNCHANGED <<transformerRegistry, validatorRegistry, cells, call, ncalls, goroutine>>

\* the write of the map is done and the registration returns
RegisterEnd ==
    /\ ~registering.fatal
    /\ registering.pending # <<>>
    /\ IF registering.pending[1] = "transformer"
       THEN /\ transformerRegistry' =
                 Put(transformerRegistry, registering.pending[2], registering.pending[3])
            /\ UNCHANGED validatorRegistry
       ELSE /\ validatorRegistry' =
                 Put(validatorRegistry, registering.pending[2], registering.pending[3])
            /\ UNCHANGED transformerRegistry
    /\ registering' = [registering EXCEPT !.pending = <<>>]
    /\ UNCHANGED <<cells, call, ncalls, goroutine>>

\* goroutine g calls MapStructs on its pair: the arguments are checked and
\* the pipelines of the top level are built
Building(g) ==
    /\ ~registering.fatal
    /\ goroutine[g].pc = "idle"
    /\ IF ~isValidStructPointer(PairOf(g)[1]) \/ ~isValidStructPointer(PairOf(g)[2])
       THEN /\ goroutine' = [goroutine EXCEPT ![g] =
                   [Idle EXCEPT !.pc = "done", !.pre = cells,
                      !.err = Err("precondition", <<>>,
                                  "both source and destination must be pointer to a struct",
                                  <<>>, <<>>)]]
            /\ registering' = [registering EXCEPT !.late = @ \/ Writing # "none"]
       ELSE \E ft \in {findTransformers(cells[PairOf(g)[1].cell].t)},
               fv \in {findValidators(cells[PairOf(g)[1].cell].t)},
               fatal \in BOOLEAN :
              /\ goroutine' = [goroutine EXCEPT ![g] =
                     [Idle EXCEPT !.pc = "built", !.pre = cells, !.ft = ft, !.fv = fv]]
              /\ registering' =
                   [afterRead(readsBuilding(cells[PairOf(g)[1].cell].t, ft), fatal)
                      EXCEPT !.late = @ \/ Writing # "none"]
    /\ UNCHANGED <<transformerRegistry, validatorRegistry, cells, call, ncalls>>

\* goroutine g runs the field loop and its call returns
Mapping(g) ==
    /\ ~registering.fatal
    /\ goroutine[g].pc = "built"
    /\ \E r \in {pipelinesBuilt(cells[PairOf(g)[1].cell], cells[PairOf(g)[2].cell], FALSE,
                                <<>>, <<>>, "dest", <<>>, goroutine[g].ft, goroutine[g].fv)},
          fatal \in BOOLEAN :
          /\ cells' = fieldsMapped(g, r)
          /\ goroutine' = [goroutine EXCEPT ![g].pc = "done", ![g].err = r.err, ![g].log = r.log]
          /\ registering' = afterRead(readsMapping(r), fatal)
    /\ UNCHANGED <<transformerRegistry, validatorRegistry, call, ncalls>>

NextConcurrent ==
    \/ \E r \in TransformerRegs : RegisterBegin("transformer", r[1], r[2])
    \/ \E r \in ValidatorRegs : RegisterBegin("validator", r[1], r[2])
    \/ RegisterEnd
    \/ \E g \in Goroutines : Building(g)
    \/ \E g \in Goroutines : Mapping(g)

\* the client whose goroutines map and register with nothing ordering them
SpecConcurrent == Init /\ [][NextConcurrent]_vars

(***************************************************************************)
(* The built-in validators called on their own (package validators).       *)
(***************************************************************************)
TextValidators ==
    {"EmailValidator", "PhoneValidator", "StrongPasswordValidator", "DateValidator",
     "TimeValidator", "DatetimeValidator", "UrlValidator", "IpValidator",
     "MinLengthValidator", "MaxLengthValidator", "EnumValidator", "ContainsValidator",
     "NotContainsValidator", "StartsWidthValidator", "EndsWithValidator"}

NumberValidators ==
    {"GreaterThanValidator", "LessThanValidator", "GreaterThanOrEqualValidator",
     "LessThanOrEqualValidator", "RangeValidator"}

\* the call f(input, arg) of a validator, the one call of its client
CallValidator(f, input, arg) ==
    /\ ncalls < MaxCalls
    /\ call.op = "none"
    /\ call' = [op |-> f, src |-> NilArg, dest |-> NilArg, pre |-> cells,
                treg |-> transformerRegistry, vreg |-> validatorRegistry,
                err |-> ApplyValidator(f, input, arg), log |-> <<>>,
                arg |-> input, spec |-> arg, ret |-> NoV, text |-> <<>>]
    /\ ncalls' = ncalls + 1
    /\ UNCHANGED <<transformerRegistry, validatorRegistry, cells, goroutine, registering>>

\* the inputs and the arguments a client passes to the validators
ValidatorTexts ==
    { <<"a", "@", "b", ".", "c", "o">>, <<"+", "1", "2", "3">>, <<"A", "b", "1", "!", "e", "f", "g", "h">>, sDate, sTime, sDatetime, sUrl, sIp, <<"a", "b">>, <<"b">> }

ValidatorInputs ==
    {StrV(x) : x \in ValidatorTexts}
    \cup {PtrV("*string", StrV(<<"a", "b">>)), NilV("*string"), NoV,
          SliceV("[]string", <<>>), SliceV("[]string", <<StrV(<<"a", "b">>)>>), Leaf(<<"a", "b">>)}
    \cup {IntV(n) : n \in {0 - 1, 0, 1, 3, 5, 6}}
    \cup {Int64V(n) : n \in {0, 4}}
    \cup {UintV(n) : n \in {0, 5}}

ValidatorArgs ==
    { <<>>, <<"3">>, <<"0">>, <<"a", "b">>, <<"a", "b", "-", "b">>, <<"a", ",", "x">>, <<"1", "-", "5">>, <<"0", "-", "3">>, <<"3", "-", "3">>, <<"5", "-", "1">>, <<"-", "1">>, <<"x", "-", "5">>, <<"1", "-", "2", "-", "3">> }

NextValidators ==
    /\ call.op = "none"
    /\ \E f \in TextValidators \cup NumberValidators, input \in ValidatorInputs,
          arg \in ValidatorArgs : CallValidator(f, input, arg)

\* the client that calls the validators directly
SpecValidators == Init /\ [][NextValidators]_vars

Next ==
    \/ \E r \in TransformerRegs : RegisterTransformer(r[1], r[2])
    \/ \E r \in ValidatorRegs : RegisterValidator(r[1], r[2])
    \/ \E c \in CallPairs : MapStructs(c[1], c[2])

Spec == Init /\ [][Next]_vars

(***************************************************************************)
(* A client that registers and maps in turns.                              *)
(***************************************************************************)
\* the calls it repeats
RepeatedPairs == { <<PtrTo(1), PtrTo(2)>>, <<PtrTo(3), PtrTo(4)>> }

\* the registrations it makes, two names registered with either of two
\* functions
LaterTransformerRegs == TransformerRegs \cup { <<sUp, "addExclamation">> }
LaterValidatorRegs   == ValidatorRegs \cup { <<sLen, "MaxLengthValidator">> }

NextRegistry ==
    \/ \E reg \in LaterTransformerRegs : RegisterTransformer(reg[1], reg[2])
    \/ \E reg \in LaterValidatorRegs : RegisterValidator(reg[1], reg[2])
    \/ \E pair \in RepeatedPairs : MapStructsWithin(MaxRecalls, pair[1], pair[2])

SpecRegistry == Init /\ [][NextRegistry]_vars

(***************************************************************************)
(* Vocabulary of the properties: the last call, its records before and     *)
(* after, and the tags read independently of the pipeline builders.        *)
(***************************************************************************)
Log == call.log

\* the last call was a MapStructs given two pointers to structs
Mapped ==
    /\ call.op = "MapStructs"
    /\ call.src.form = "ptr" /\ call.dest.form = "ptr"
    /\ Kind(call.pre[call.src.cell].t) = "struct"
    /\ Kind(call.pre[call.dest.cell].t) = "struct"

SrcPre   == call.pre[call.src.cell]
DestPre  == call.pre[call.dest.cell]
DestPost == cells[call.dest.cell]

IsPrefix(p, q) == Len(p) <= Len(q) /\ SubSeq(q, 1, Len(p)) = p
Related(p, q)  == IsPrefix(p, q) \/ IsPrefix(q, p)

\* the value of a pointer, or the value itself
Unwrap(v) == IF Kind(v.t) = "ptr" /\ ~v.nil THEN v.el[1] ELSE v

\* the value found in v along a path of field and element indexes
RECURSIVE At(_, _)
At(v, path) ==
    IF path = <<>> THEN v ELSE At(Unwrap(v).el[Head(path)], Tail(path))

\* the logical name of a field: its json tag up to the first comma
LogicalName(f) ==
    IF f.json = <<>> \/ f.json = <<"-">> THEN <<>>
    ELSE IF IndexIn(f.json, ",") = 0 THEN f.json
    ELSE SubSeq(f.json, 1, IndexIn(f.json, ",") - 1)

FieldIdx(t) == 1..Len(Fields(t))

\* the destination fields carrying a logical name
Counterparts(t, name) == {j \in FieldIdx(t) : LogicalName(Fields(t)[j]) = name}

\* the names a tag lists, in order (what stands before a colon, trimmed)
TagNames(tag) ==
    IF tag = <<>> THEN <<>>
    ELSE [k \in 1..Len(Split(tag, ",")) |-> TrimSpace(SplitN2(Split(tag, ",")[k], ":")[1])]

\* the argument of each entry of a validator tag, in order
TagArgs(tag) ==
    IF tag = <<>> THEN <<>>
    ELSE [k \in 1..Len(Split(tag, ",")) |->
            LET parts == SplitN2(Split(tag, ",")[k], ":")
            IN  IF Len(parts) > 1 THEN TrimSpace(parts[2]) ELSE <<>>]

Range(f) == {f[k] : k \in DOMAIN f}

\* the names in the transformer tags of the fields of t that reg lacks
UnregisteredTransformers(t, reg) ==
    UNION {Range(TagNames(Fields(t)[i].transformer)) : i \in FieldIdx(t)} \ DOMAIN reg

UnregisteredValidators(t, reg) ==
    UNION {Range(TagNames(Fields(t)[i].validator)) : i \in FieldIdx(t)} \ DOMAIN reg

\* the struct type a field type holds, directly, behind a pointer or in a slice
HeldStruct(t) ==
    IF Kind(t) = "struct" THEN t
    ELSE IF Kind(t) \in {"ptr", "slice"} /\ Kind(Elem(t)) = "struct" THEN Elem(t)
    ELSE "invalid"

\* the same, for t and the records nested in it
RECURSIVE DeepUnregisteredTransformers(_, _)
DeepUnregisteredTransformers(t, reg) ==
    UnregisteredTransformers(t, reg) \cup
    UNION {DeepUnregisteredTransformers(HeldStruct(Fields(t)[i].type), reg) :
             i \in {k \in FieldIdx(t) : HeldStruct(Fields(t)[k].type) # "invalid"}}

BuildErrors == {"transformerNotFound", "validatorParse"}

\* the struct types gone through from type t along a path of field and
\* element indexes: the levels the field at the end of the path lies in
RECURSIVE Levels(_, _)
Levels(t, path) ==
    IF path = <<>> THEN {}
    ELSE IF Kind(t) = "struct" THEN {t} \cup Levels(Fields(t)[Head(path)].type, Tail(path))
    ELSE IF Kind(t) = "ptr" THEN Levels(Elem(t), path)
    ELSE IF Kind(t) = "slice" THEN Levels(Elem(t), Tail(path))
    ELSE {}

\* the call returned an error raised while a source field was processed
FieldError == call.err.kind \in (BuildErrors \cup {"validation", "codec"}) /\ call.err.path # <<>>

(***************************************************************************)
(* The properties.                                                         *)
(***************************************************************************)

\* C1: when a validator rejects the value of a source field, the call ends
\* there with the validation error of that field: the rejection is the last
\* thing the call did, and nothing but validator calls was ever done for that
\* field - no transformer was called for it and no slot was assigned for it.
C1_RejectionStopsField ==
    Mapped =>
      \A i \in DOMAIN Log :
        (Log[i].ev = "validate" /\ ~Log[i].ok) =>
          /\ i = Len(Log)
          /\ call.err.kind = "validation"
          /\ call.err.path = Log[i].path
          /\ \A j \in DOMAIN Log :
               IsPrefix(Log[i].path, Log[j].path) => Log[j].ev = "validate"

\* a validator rejected a field that has transformers in its tag and a
\* like-named destination field
C1_Witness ==
    /\ Mapped
    /\ call.err.kind = "validation"
    /\ Len(call.err.path) = 1
    /\ Fields(SrcPre.t)[call.err.path[1]].transformer # <<>>
    /\ Counterparts(DestPre.t, call.err.name) # {}
    /\ Log # <<>> /\ ~Log[Len(Log)].ok

\* C5: no rollback.  When the call returns an error raised at source field k
\* of the top-level struct, nothing was done for a field after k, and every
\* slot of the destination assigned for a field before k still holds the
\* value last assigned to it.
C5_NoRollback ==
    (Mapped /\ FieldError) =>
      LET k == call.err.path[1]
      IN  /\ \A j \in DOMAIN Log : Log[j].path[1] <= k
          /\ \A j \in DOMAIN Log :
               ( /\ Log[j].ev = "write" /\ Log[j].to = "dest"
                 /\ Log[j].path[1] < k
                 /\ \A m \in DOMAIN Log :
                      (m > j /\ Log[m].ev = "write" /\ Log[m].to = "dest")
                         => ~Related(Log[m].dpath, Log[j].dpath) )
               => Unwrap(At(DestPost, Log[j].dpath)) = Unwrap(Log[j].val)

\* the call failed at a field neither first nor last, after it had changed
\* the destination for an earlier field
C5_Witness ==
    /\ Mapped /\ FieldError
    /\ call.err.path[1] > 1
    /\ call.err.path[1] < Len(Fields(SrcPre.t))
    /\ \E j \in DOMAIN Log :
         /\ Log[j].ev = "write" /\ Log[j].to = "dest"
         /\ Log[j].path[1] < call.err.path[1]
         /\ At(DestPre, Log[j].dpath) # Log[j].val
    /\ DestPost # DestPre

\* C7: the pipelines of a struct level are built before any field of the
\* level is processed.  A name in a tag of the top-level source struct that
\* is not registered makes the call fail with the build error, no validator
\* called and no slot assigned; whenever the build of a level fails, no
\* validator was called and no slot assigned for a field of that level; and
\* nothing is ever done for a field of a level one of whose tags names an
\* unregistered validator or transformer.
C7_BuildBeforeFields ==
    Mapped =>
      /\ \A j \in DOMAIN Log : \A t \in Levels(SrcPre.t, Log[j].path) :
           /\ UnregisteredTransformers(t, call.treg) = {}
           /\ UnregisteredValidators(t, call.vreg) = {}
      /\ ( UnregisteredTransformers(SrcPre.t, call.treg) # {}
           \/ UnregisteredValidators(SrcPre.t, call.vreg) # {} )
         => /\ call.err.kind \in BuildErrors
            /\ call.err.path = <<>>
            /\ Log = <<>>
            /\ cells = call.pre
      /\ call.err.kind \in BuildErrors
         => \A j \in DOMAIN Log :
              ~(IsPrefix(call.err.path, Log[j].path) /\ Len(Log[j].path) > Len(call.err.path))

\* the build of a nested level failed on an unregistered validator name after
\* fields of the enclosing level had been mapped
C7_Witness ==
    /\ Mapped
    /\ call.err.kind = "validatorParse"
    /\ call.err.path # <<>>
    /\ Log # <<>>
    /\ DestPost # DestPre

\* C9: MapStructs given a source or a destination that is not a pointer, is
\* a pointer to something that is not a struct, or is a nil pointer returns
\* the precondition error having called no validator or transformer and
\* changed no record.
C9_PreconditionFirst ==
    ( /\ call.op = "MapStructs"
      /\ \E a \in {call.src, call.dest} :
           a.form # "ptr" \/ Kind(call.pre[a.cell].t) # "struct" )
    => /\ call.err.kind = "precondition"
       /\ Log = <<>>
       /\ cells = call.pre

\* a struct was passed by value as the source
C9_Witness ==
    /\ call.op = "MapStructs"
    /\ call.src.form = "value"
    /\ Kind(call.pre[call.src.cell].t) = "struct"
    /\ call.dest.form = "ptr"
    /\ call.err.kind = "precondition"

\* C6 as stated: a transformer name that is not registered, in a tag of the
\* source struct or of a struct nested in it, makes the call return
\* "transformer '<name>' not found" and leaves the destination as it was.
C6_AsStated ==
    (Mapped /\ DeepUnregisteredTransformers(SrcPre.t, call.treg) # {})
    => /\ call.err.kind = "transformerNotFound"
       /\ cells = call.pre

\* C6: a transformer name that is not registered in a tag of the top-level
\* source struct makes the call return "transformer '<name>' not found" for
\* such a name with nothing done and the destination as it was; and whatever
\* the level, a "transformer not found" error names a name that is not
\* registered and nothing was done for a field of the level it was raised at.
C6_UnregisteredTransformer ==
    Mapped =>
      /\ UnregisteredTransformers(SrcPre.t, call.treg) # {}
         => /\ call.err.kind = "transformerNotFound"
            /\ call.err.name \in UnregisteredTransformers(SrcPre.t, call.treg)
            /\ call.err.path = <<>>
            /\ Log = <<>>
            /\ cells = call.pre
      /\ call.err.kind = "transformerNotFound"
         => /\ call.err.name \notin DOMAIN call.treg
            /\ call.err.name \in DeepUnregisteredTransformers(SrcPre.t, call.treg)
            /\ \A j \in DOMAIN Log :
                 ~(IsPrefix(call.err.path, Log[j].path) /\ Len(Log[j].path) > Len(call.err.path))

\* a call on a populated destination failed on an unregistered top-level
\* transformer name while another transformer of the struct was registered
C6_Witness ==
    /\ Mapped
    /\ UnregisteredTransformers(SrcPre.t, call.treg) # {}
    /\ \E i \in FieldIdx(SrcPre.t) :
         Range(TagNames(Fields(SrcPre.t)[i].transformer)) \cap DOMAIN call.treg # {}
    /\ call.err.kind = "transformerNotFound"
    /\ DestPost = DestPre

\* C8 as stated: a source field whose logical name no destination field
\* carries never makes the call return an error and never causes a write.
C8_AsStated ==
    Mapped =>
      \A i \in FieldIdx(SrcPre.t) :
        ( /\ LogicalName(Fields(SrcPre.t)[i]) # <<>>
          /\ Counterparts(DestPre.t, LogicalName(Fields(SrcPre.t)[i])) = {} )
        => /\ \A j \in DOMAIN Log : Log[j].path[1] = i => Log[j].ev # "write"
           /\ ~(call.err.kind # "none" /\ call.err.path # <<>> /\ call.err.path[1] = i)

\* C8: a source field whose logical name no destination field carries never
\* causes a write nor a transformer call - only validator calls are done for
\* it - and the only error raised at it is the rejection of its value by a
\* validator.
C8_UnmatchedField ==
    Mapped =>
      \A i \in FieldIdx(SrcPre.t) :
        ( /\ LogicalName(Fields(SrcPre.t)[i]) # <<>>
          /\ Counterparts(DestPre.t, LogicalName(Fields(SrcPre.t)[i])) = {} )
        => /\ \A j \in DOMAIN Log : Log[j].path[1] = i => Log[j].ev = "validate"
           /\ (call.err.kind # "none" /\ call.err.path # <<>> /\ call.err.path[1] = i)
                => (call.err.kind = "validation" /\ call.err.path = <<i>>)

\* a call went through: the validators of a field without a destination
\* field accepted its value, and fields after it were written
C8_Witness ==
    /\ Mapped
    /\ call.err.kind = "none"
    /\ \E i \in FieldIdx(SrcPre.t) :
         /\ LogicalName(Fields(SrcPre.t)[i]) # <<>>
         /\ Counterparts(DestPre.t, LogicalName(Fields(SrcPre.t)[i])) = {}
         /\ \E j \in DOMAIN Log : Log[j].path = <<i>> /\ Log[j].ev = "validate"
         /\ \E j \in DOMAIN Log : Log[j].path[1] > i /\ Log[j].ev = "write"

\* the two structs have the same logical names with the same field types,
\* and the source has no validator or transformer tag
RECURSIVE NoTags(_)
NoTags(t) ==
    \A i \in FieldIdx(t) :
       /\ Fields(t)[i].validator = <<>> /\ Fields(t)[i].transformer = <<>>
       /\ HeldStruct(Fields(t)[i].type) # "invalid" => NoTags(HeldStruct(Fields(t)[i].type))

NamedFields(t) == {i \in FieldIdx(t) : LogicalName(Fields(t)[i]) # <<>>}

LikePair ==
    /\ Mapped
    /\ call.src.cell # call.dest.cell
    /\ NoTags(SrcPre.t)
    /\ NamedFields(SrcPre.t) # {}
    /\ \A i \in NamedFields(SrcPre.t) : \E j \in NamedFields(DestPre.t) :
          LogicalName(Fields(DestPre.t)[j]) = LogicalName(Fields(SrcPre.t)[i])
    /\ \A j \in NamedFields(DestPre.t) : \E i \in NamedFields(SrcPre.t) :
          LogicalName(Fields(DestPre.t)[j]) = LogicalName(Fields(SrcPre.t)[i])
    /\ \A i \in NamedFields(SrcPre.t), j \in NamedFields(DestPre.t) :
          LogicalName(Fields(DestPre.t)[j]) = LogicalName(Fields(SrcPre.t)[i])
             => Fields(DestPre.t)[j].type = Fields(SrcPre.t)[i].type

\* the last field of t carrying the logical name
LastNamed(t, name) ==
    CHOOSE i \in Counterparts(t, name) : \A j \in Counterparts(t, name) : j <= i

\* a value with every nil slice in it taken for the empty slice
RECURSIVE NilAsEmpty(_)
NilAsEmpty(v) ==
    IF Kind(v.t) = "slice" /\ v.nil THEN SliceV(v.t, <<>>)
    ELSE [v EXCEPT !.el = [k \in DOMAIN v.el |-> NilAsEmpty(v.el[k])]]

RECURSIVE Chain(_, _, _, _)
Chain(names, reg, k, x) ==
    IF k > Len(names) THEN x
    ELSE Chain(names, reg, k + 1, ApplyTransformer(reg[names[k]], x))

\* the validator calls made for the top-level source field i, in order
ValidatorCalls(i) == SelectSeq(Log, LAMBDA e : e.ev = "validate" /\ e.path = <<i>>)

\* the call got to the end of the processing of top-level source field i
Passed(i) == call.err.kind = "none" \/ (call.err.path # <<>> /\ call.err.path[1] > i)

\* C2 as stated: every validator called for a source field receives the value
\* the field held when the call began, never the output of a transformer.
C2_AsStated ==
    Mapped =>
      \A j \in DOMAIN Log :
         Log[j].ev = "validate" => Log[j].val = At(SrcPre, Log[j].path)

\* C3 as stated: a text source field whose tag lists the transformers
\* T1,...,Tn and that has a like-named text destination field has
\* Tn(...T1(x)...) written for it, x being its value.
C3_AsStated ==
    (Mapped /\ call.err.kind = "none") =>
      \A i \in NamedFields(SrcPre.t) :
        LET f    == Fields(SrcPre.t)[i]
            name == LogicalName(f)
        IN  ( /\ f.type = "string" /\ f.transformer # <<>>
              /\ Counterparts(DestPre.t, name) # {}
              /\ Fields(DestPre.t)[LastNamed(DestPre.t, name)].type = "string" )
            => \E j \in DOMAIN Log :
                  /\ Log[j].ev = "write" /\ Log[j].path = <<i>>
                  /\ Log[j].val = Chain(TagNames(f.transformer), call.treg, 1, SrcPre.el[i])

\* C4 as stated: the validators called for a field are those of its own tag,
\* in the order of the tag and each with its own argument; all but the last
\* one called accepted; a rejection ends the call with the validation error
\* naming the field; and a field the call got past had all of them called.
C4_AsStated ==
    (Mapped /\ call.err.kind \notin BuildErrors) =>
      \A i \in NamedFields(SrcPre.t) :
        LET f     == Fields(SrcPre.t)[i]
            names == TagNames(f.validator)
            args  == TagArgs(f.validator)
            evs   == ValidatorCalls(i)
        IN  /\ Len(evs) <= Len(names)
            /\ \A k \in DOMAIN evs :
                 /\ evs[k].fn = call.vreg[names[k]]
                 /\ evs[k].arg = args[k]
                 /\ k < Len(evs) => evs[k].ok
            /\ (Len(evs) > 0 /\ ~evs[Len(evs)].ok)
                 => /\ call.err.kind = "validation"
                    /\ call.err.name = LogicalName(f)
                    /\ call.err.path = <<i>>
            /\ Passed(i) => Len(evs) = Len(names)

\* the top-level source fields of the last call that are nil pointers and
\* have a like-named destination field
NilOptionals ==
    {i \in FieldIdx(SrcPre.t) :
        /\ Kind(Fields(SrcPre.t)[i].type) = "ptr" /\ SrcPre.el[i].nil
        /\ LogicalName(Fields(SrcPre.t)[i]) # <<>>
        /\ Counterparts(DestPre.t, LogicalName(Fields(SrcPre.t)[i])) # {}}

\* the destination field the source field i is mapped onto
Target(i) == LastNamed(DestPre.t, LogicalName(Fields(SrcPre.t)[i]))

\* the call went past source field i: it returned no error, or an error
\* raised at a later field
WentPast(i) == call.err.kind = "none" \/ (call.err.path # <<>> /\ call.err.path[1] > i)

\* the events of the last call, validator calls apart, done for source field i
Handling(i) == {k \in DOMAIN Log : Log[k].ev # "validate" /\ IsPrefix(<<i>>, Log[k].path)}

\* C11: when the mapping sets a source field that is a nil pointer and has a
\* like-named destination field (the call goes past the field: no error
\* ended it before), the one thing done for that field besides
\* its validators is the assignment of the zero value of the destination
\* field's type (nil for a pointer) to that field, whatever it held; no
\* transformer is invoked for it; and the field holds that zero value after
\* the call when no later source field has the same logical name.  When the
\* call ends before or at that field, nothing is assigned for that field.
C11_NilOptionalZeroed ==
    Mapped =>
      \A i \in NilOptionals :
         IF WentPast(i)
         THEN /\ \E k \in DOMAIN Log :
                    /\ Handling(i) = {k}
                    /\ Log[k] = WriteEv(<<i>>, <<Target(i)>>,
                                        Zero(Fields(DestPre.t)[Target(i)].type), "dest")
              /\ i = LastNamed(SrcPre.t, LogicalName(Fields(SrcPre.t)[i]))
                    => DestPost.el[Target(i)] = Zero(Fields(DestPre.t)[Target(i)].type)
         ELSE Handling(i) = {}

\* a nil pointer carrying a registered transformer was mapped onto a text
\* field that held a text, and the call went on to the end
C11_Witness ==
    /\ Mapped /\ call.err.kind = "none"
    /\ \E i \in NilOptionals :
          /\ Fields(SrcPre.t)[i].transformer # <<>>
          /\ Kind(Fields(DestPre.t)[Target(i)].type) = "string"
          /\ DestPre.el[Target(i)].s # <<>>
          /\ DestPost.el[Target(i)] = StrV(<<>>)

\* the top-level source fields of the last call of one of the kinds ks whose
\* like-named destination field is of one of the kinds kd
Shaped(ks, kd) ==
    {i \in FieldIdx(SrcPre.t) :
        /\ Kind(Fields(SrcPre.t)[i].type) \in ks
        /\ LogicalName(Fields(SrcPre.t)[i]) # <<>>
        /\ Counterparts(DestPre.t, LogicalName(Fields(SrcPre.t)[i])) # {}
        /\ Kind(Fields(DestPre.t)[Target(i)].type) \in kd}

\* the text ["go","dev"]
GoDevText ==
    <<"[", "\"", "g", "o", "\"", ",", "\"", "d", "e", "v", "\"", "]">>

RuleReached(i) ==
    WentPast(i) \/ (call.err.path = <<i>> /\ call.err.kind # "validation")

\* the text the codec is given for a source text: {} or [] for the empty
\* text, by the kind of the destination
CodecInput(text, t) ==
    IF text # <<>> THEN text
    ELSE IF Kind(t) = "struct" THEN <<"{", "}">> ELSE <<"[", "]">>

\* what the texts of the client are to become: a value, or no value for a
\* text that is not JSON
Expected(text, t) ==
    IF text = <<>> /\ Kind(t) = "struct" THEN Zero(t)
    ELSE IF text = <<>> /\ Kind(t) = "slice" THEN SliceV(t, <<>>)
    ELSE IF text = CsvTexts[3] /\ t = "[]string"
    THEN SliceV(t, <<StrV(<<"a">>), StrV(<<"b">>)>>)
    ELSE IF text = RawTexts[2] /\ t = "Leaf" THEN Leaf(<<"x">>)
    ELSE IF text = RawTexts[4] /\ t = "Leaf" THEN Leaf(<<"y">>)
    ELSE NoV

C14_AsStated ==
    Mapped =>
      \A i \in Shaped({"string"}, {"slice"}) :
         /\ RuleReached(i) /\ call.src.cell # call.dest.cell
         /\ Kind(Elem(Fields(DestPre.t)[Target(i)].type)) = "string"
         => /\ WentPast(i)
            /\ DestPost.el[Target(i)]
                 = splitTrimmed(Fields(DestPre.t)[Target(i)].type, SrcPre.el[i].s)
            /\ SrcPre.el[i].s = CsvTexts[2]
                 => DestPost.el[Target(i)]
                      = SliceV("[]string", <<StrV(<<"a">>), StrV(<<"b">>), StrV(<<"c">>)>>)

\* the texts free of commas and of spaces at their ends
Plainly(elems) ==
    \A k \in DOMAIN elems :
       /\ IndexIn(elems[k].s, ",") = 0
       /\ TrimSpace(elems[k].s) = elems[k].s

\* C15 as stated: when the mapping sets a source field that is a slice of
\* strings and whose like-named destination field is a string, the
\* destination field holds the elements joined with commas, and splitting
\* and trimming that text gives the elements back when none of them holds a
\* comma or begins or ends with a space.
C15_AsStated ==
    Mapped =>
      \A i \in Shaped({"slice"}, {"string"}) :
         /\ WentPast(i) /\ call.src.cell # call.dest.cell
         /\ Kind(Elem(Fields(SrcPre.t)[i].type)) = "string"
         => /\ DestPost.el[Target(i)] = StrV(Join(SrcPre.el[i].el, <<",">>))
            /\ SrcPre.el[i].el # <<>> /\ Plainly(SrcPre.el[i].el)
                 => splitTrimmed(Fields(SrcPre.t)[i].type, DestPost.el[Target(i)].s).el
                      = SrcPre.el[i].el

\* p comes before q, or is the beginning of q, in the order the mapping goes
\* through the fields and elements
RECURSIVE NotAfter(_, _)
NotAfter(p, q) ==
    IF p = <<>> THEN TRUE
    ELSE IF q = <<>> THEN FALSE
    ELSE IF Head(p) # Head(q) THEN Head(p) < Head(q)
    ELSE NotAfter(Tail(p), Tail(q))

\* the nested pairs of the last call: a top-level struct field whose
\* like-named destination field is a struct, and each element of a top-level
\* slice of structs whose like-named destination field is a slice of structs;
\* at is the path of the nested source record, st and dt the two struct types
NestedPairs ==
    {[at |-> <<i>>, st |-> Fields(SrcPre.t)[i].type,
      dt |-> Fields(DestPre.t)[Target(i)].type] : i \in Shaped({"struct"}, {"struct"})}
    \cup
    UNION {{[at |-> <<i, k>>, st |-> Elem(Fields(SrcPre.t)[i].type),
             dt |-> Elem(Fields(DestPre.t)[Target(i)].type)] : k \in DOMAIN SrcPre.el[i].el} :
           i \in {n \in Shaped({"slice"}, {"slice"}) :
                     /\ Kind(Elem(Fields(SrcPre.t)[n].type)) = "struct"
                     /\ Kind(Elem(Fields(DestPre.t)[Target(n)].type)) = "struct"}}

\* the mapping got to the nested pair: the call returned no error, or an
\* error raised at or behind it, the rejection of the enclosing field by one
\* of its own validators apart
Entered(np) ==
    \/ call.err.kind = "none"
    \/ /\ call.err.path # <<>> /\ NotAfter(np.at, call.err.path)
       /\ ~(call.err.kind = "validation" /\ call.err.path = <<np.at[1]>>)

\* the mapping got past field m of the nested pair
NestedPast(np, m) ==
    call.err.kind = "none" \/ ~NotAfter(call.err.path, Append(np.at, m))

\* the destination slot written for field m of the nested pair
NestedSlot(np, m) ==
    LET first == Target(np.at[1])
        last  == LastNamed(np.dt, LogicalName(Fields(np.st)[m]))
    IN  IF Len(np.at) = 1 THEN <<first, last>> ELSE <<first, np.at[2], last>>

\* C16: for every nested pair the mapping gets to, the nested record goes
\* through the whole of the mapping.  A name missing from a registry in the
\* tags of the nested source type ends the call with the error for it, no
\* field of the pair touched.  Otherwise each named field of the nested source
\* has the validators of its own tag called, in order, on the value the
\* nested source holds; a rejection ends the call with the validation error
\* of that field; a text field the mapping gets past is written, with the
\* transformers of its own tag applied in order, to the field of the nested
\* destination type that has its logical name, where it is found after a
\* call without error.
C16_NestedMapped ==
    (Mapped /\ call.src.cell # call.dest.cell) =>
      \A np \in NestedPairs :
         Entered(np) =>
           IF UnregisteredTransformers(np.st, call.treg) # {}
              \/ UnregisteredValidators(np.st, call.vreg) # {}
           THEN /\ call.err.kind \in BuildErrors
                /\ call.err.kind = "transformerNotFound"
                      => call.err.name \in UnregisteredTransformers(np.st, call.treg)
                /\ call.err.kind = "validatorParse"
                      => call.err.arg \in UnregisteredValidators(np.st, call.vreg)
                /\ call.err.path = np.at
                /\ \A k \in DOMAIN Log : ~IsPrefix(np.at, Log[k].path) \/ Log[k].path = np.at
           ELSE \A m \in NamedFields(np.st) :
                  LET f   == Fields(np.st)[m]
                      x   == At(SrcPre, Append(np.at, m))
                      evs == SelectSeq(Log, LAMBDA e : e.ev = "validate"
                                                        /\ e.path = Append(np.at, m))
                  IN  /\ Len(evs) <= Len(TagNames(f.validator))
                      /\ \A k \in DOMAIN evs :
                            /\ evs[k].fn = call.vreg[TagNames(f.validator)[k]]
                            /\ evs[k].arg = TagArgs(f.validator)[k]
                            /\ evs[k].val = x
                            /\ evs[k].ok = (ApplyValidator(evs[k].fn, x, evs[k].arg).kind = "none")
                            /\ k < Len(evs) => evs[k].ok
                      /\ (Len(evs) > 0 /\ ~evs[Len(evs)].ok)
                            => /\ call.err.kind = "validation"
                               /\ call.err.path = Append(np.at, m)
                      /\ NestedPast(np, m) =>
                            /\ Len(evs) = Len(TagNames(f.validator))
                            /\ \A k \in DOMAIN evs : evs[k].ok
                            /\ ( /\ f.type = "string"
                                 /\ Counterparts(np.dt, LogicalName(f)) # {}
                                 /\ Fields(np.dt)[LastNamed(np.dt, LogicalName(f))].type = "string" )
                               => /\ \E k \in DOMAIN Log :
                                        /\ Log[k].ev = "write" /\ Log[k].path = Append(np.at, m)
                                        /\ Log[k].val = Chain(TagNames(f.transformer), call.treg, 1, x)
                                        /\ Log[k].dpath[Len(Log[k].dpath)]
                                             = LastNamed(np.dt, LogicalName(f))
                                  /\ call.err.kind = "none"
                                        => At(DestPost, NestedSlot(np, m))
                                             = Chain(TagNames(f.transformer), call.treg, 1, x)

\* a struct and the elements of a slice of structs, their type carrying a
\* validator and a transformer, were mapped onto a struct type that has the
\* fields in another order, and the call returned no error
C16_Witness ==
    /\ Mapped /\ call.err.kind = "none" /\ call.src.cell # call.dest.cell
    /\ \E np \in NestedPairs :
          /\ Len(np.at) = 1
          /\ \E m \in NamedFields(np.st) :
                /\ Fields(np.st)[m].validator # <<>> /\ Fields(np.st)[m].transformer # <<>>
                /\ LastNamed(np.dt, LogicalName(Fields(np.st)[m])) # m
                /\ At(DestPost, NestedSlot(np, m)) # At(SrcPre, Append(np.at, m))
    /\ \E np \in NestedPairs :
          /\ Len(np.at) = 2 /\ np.at[2] = 2
          /\ \E m \in NamedFields(np.st) :
                /\ Fields(np.st)[m].transformer # <<>>
                /\ At(DestPost, NestedSlot(np, m)) # At(SrcPre, Append(np.at, m))

\* the kinds of error MapStructs returns to its caller; a call that ends in
\* a panic returns nothing
ReturnedKinds ==
    {"precondition", "transformerNotFound", "validatorParse", "validation", "codec",
     "mismatch"}

\* C17 as stated: when the fallback rule is reached for a text or number
\* field and the value its transformers give is not of the type of the
\* like-named destination field, the call ends by returning an error for
\* that field, and in no other way, and the destination field is not written.
C17_AsStated ==
    (Mapped /\ call.src.cell # call.dest.cell) =>
      \A i \in Shaped({"string", "int"}, {"string", "int"}) :
         /\ RuleReached(i)
         /\ UnregisteredTransformers(SrcPre.t, call.treg) = {}
         /\ Chain(TagNames(Fields(SrcPre.t)[i].transformer), call.treg, 1, SrcPre.el[i]).t
              # Fields(DestPre.t)[Target(i)].type
         => /\ call.err.kind \in ReturnedKinds \ {"none"}
            /\ call.err.path = <<i>>
            /\ \A k \in DOMAIN Log : Log[k].ev = "write" => Log[k].path # <<i>>
            /\ DestPost.el[Target(i)] = DestPre.el[Target(i)]

\* the last call was a ValidateSingleField
FieldCall == call.op = "ValidateSingleField"

\* what follows the first key in a spec, and whether a quote closes it
AfterKey(spec, key) ==
    IF Index(spec, key) = -1 THEN <<>>
    ELSE SubSeq(spec, Index(spec, key) + Len(key) + 1, Len(spec))

Closed(spec, key) == Index(spec, key) = -1 \/ Index(AfterKey(spec, key), <<"'">>) # -1

\* the text of a section: what stands between the key and the next quote
SectionText(spec, key) ==
    IF Index(AfterKey(spec, key), <<"'">>) = -1 THEN AfterKey(spec, key)
    ELSE SubSeq(AfterKey(spec, key), 1, Index(AfterKey(spec, key), <<"'">>))

\* the validator calls and the transformer calls of the last call, in order
Validations == SelectSeq(Log, LAMBDA e : e.ev = "validate")
Transforms  == SelectSeq(Log, LAMBDA e : e.ev = "transform")

\* the validators of the names, with their arguments, accept x up to the k-th
RECURSIVE Accepted(_, _, _, _, _)
Accepted(names, args, reg, x, k) ==
    k = 0 \/ ( /\ Accepted(names, args, reg, x, k - 1)
               /\ ApplyValidator(reg[names[k]], x, args[k]).kind = "none" )

\* the validator calls made are those of the names, in order, on x, the last
\* one made being the first that rejects, if any rejects
ValidatedInOrder(names, args, reg, x) ==
    /\ Len(Validations) <= Len(names)
    /\ \A k \in DOMAIN Validations :
          /\ Validations[k].fn = reg[names[k]]
          /\ Validations[k].arg = args[k]
          /\ Validations[k].val = x
          /\ Validations[k].ok = (ApplyValidator(reg[names[k]], x, args[k]).kind = "none")
          /\ k < Len(Validations) => Validations[k].ok
    /\ Len(Validations) < Len(names) =>
          Len(Validations) > 0 /\ ~Validations[Len(Validations)].ok

\* the transformer calls made are those of the names, in order, from x on
TransformedInOrder(names, reg, x) ==
    /\ Len(Transforms) = Len(names)
    /\ \A k \in DOMAIN Transforms :
          /\ Transforms[k].fn = reg[names[k]]
          /\ Transforms[k].val = (IF k = 1 THEN x ELSE Transforms[k - 1].out)
          /\ Transforms[k].out = ApplyTransformer(reg[names[k]], Transforms[k].val)

\* C18 as stated: the validators of the validators section are called in
\* order on the value; if one fails, its failure and the value as given are
\* returned and no transformer is called; otherwise the transformers of the
\* transformers section are called in order and the outcome of the chain is
\* returned with no error.
C18_AsStated ==
    FieldCall =>
      LET vnames == TagNames(SectionText(call.spec, sValidatorsKey))
          vargs  == TagArgs(SectionText(call.spec, sValidatorsKey))
          tnames == TagNames(SectionText(call.spec, sTransformersKey))
      IN  /\ \A k \in DOMAIN vnames : vnames[k] \in DOMAIN call.vreg
          /\ ValidatedInOrder(vnames, vargs, call.vreg, call.arg)
          /\ IF ~Accepted(vnames, vargs, call.vreg, call.arg, Len(vnames))
             THEN /\ call.err.kind = "cause"
                  /\ call.ret = call.arg
                  /\ Transforms = <<>>
             ELSE /\ \A k \in DOMAIN tnames : tnames[k] \in DOMAIN call.treg
                  /\ TransformedInOrder(tnames, call.treg, call.arg)
                  /\ call.ret = Chain(tnames, call.treg, 1, call.arg)
                  /\ call.err.kind = "none"

\* C18: for a spec whose sections are each closed by a quote, the names of
\* the validators section are looked up, and one that is not registered gives
\* an error and the value as given, no validator called; the validators are
\* called in order on the value, and the first failure is returned with the
\* value as given, no transformer looked up or called; when all accept, the
\* names of the transformers section are looked up, and one that is not
\* registered gives the error for it and the value as given; otherwise the
\* transformers are called in order and the outcome of the chain is returned
\* with no error.  A section without its closing quote makes the call panic.
C18_SingleField ==
    FieldCall =>
      LET vnames == TagNames(SectionText(call.spec, sValidatorsKey))
          vargs  == TagArgs(SectionText(call.spec, sValidatorsKey))
          tnames == TagNames(SectionText(call.spec, sTransformersKey))
      IN  IF ~Closed(call.spec, sValidatorsKey) \/ ~Closed(call.spec, sTransformersKey)
          THEN call.err.kind = "panic" /\ Log = <<>>
          ELSE IF \E k \in DOMAIN vnames : vnames[k] \notin DOMAIN call.vreg
          THEN /\ call.err.kind = "validatorNotFound"
               /\ call.err.name \in Range(vnames) \ DOMAIN call.vreg
               /\ call.ret = call.arg /\ Log = <<>>
          ELSE /\ ValidatedInOrder(vnames, vargs, call.vreg, call.arg)
               /\ IF ~Accepted(vnames, vargs, call.vreg, call.arg, Len(vnames))
                  THEN /\ call.err.kind = "cause"
                       /\ call.ret = call.arg
                       /\ Transforms = <<>>
                  ELSE IF \E k \in DOMAIN tnames : tnames[k] \notin DOMAIN call.treg
                  THEN /\ call.err.kind = "transformerNotFound"
                       /\ call.err.name \in Range(tnames) \ DOMAIN call.treg
                       /\ call.ret = call.arg
                       /\ Transforms = <<>>
                  ELSE /\ TransformedInOrder(tnames, call.treg, call.arg)
                       /\ call.ret = Chain(tnames, call.treg, 1, call.arg)
                       /\ call.err.kind = "none"

\* two validators accepted a text and two transformers changed it
C18_Witness ==
    /\ FieldCall /\ call.err.kind = "none"
    /\ Len(Validations) = 2 /\ Len(Transforms) = 2
    /\ Index(call.spec, sValidatorsKey) < Index(call.spec, sTransformersKey)
    /\ call.ret # call.arg
    /\ call.ret = StrV(<<"B", "O", "!">>)


(***************************************************************************)
(* MapJsonStruct.                                                          *)
(***************************************************************************)
JsonCall == call.op = "MapJsonStruct"

\* the target is a pointer, and what it points to is a struct
ToPointee == JsonCall /\ call.dest.form = "ptr"
ToRecord  == ToPointee /\ Kind(call.pre[call.dest.cell].t) = "struct"

\* the texts of the client that are JSON texts
WellFormedTexts == {JsonTexts[k] : k \in {1, 2, 4, 5, 6}}

\* what decoding the text into the pointee gives
Decoding == Unmarshal(call.text, call.pre[call.dest.cell])

\* the text fields of t carrying a logical name, and those among them whose
\* name no other field of t carries
TextFields(t) == {i \in NamedFields(t) : Fields(t)[i].type = "string"}
SoleTextFields(t) ==
    {i \in TextFields(t) : Counterparts(t, LogicalName(Fields(t)[i])) = {i}}

\* field i of the target holds its transformer chain applied to what was decoded
ChainHeld(i) ==
    cells[call.dest.cell].el[i] =
       Chain(TagNames(Fields(Decoding.val.t)[i].transformer), call.treg, 1, Decoding.val.el[i])

\* C19 as stated: if target is not a pointer to a struct, or the text fails
\* to decode, MapJsonStruct returns an error without invoking any validator
\* or transformer and leaves target's pointee as it was; on success each
\* text field holds its transformer chain applied to the decoded value.
C19_AsStated ==
    JsonCall =>
      /\ (~ToRecord \/ Decoding.err # "none") =>
            (call.err.kind # "none" /\ Log = <<>> /\ cells = call.pre)
      /\ (ToRecord /\ call.err.kind = "none") =>
            \A i \in TextFields(call.pre[call.dest.cell].t) : ChainHeld(i)

\* C19: MapJsonStruct(text, target) decodes the text into target and then
\* maps target onto itself.  A target that is not a pointer, a nil pointer,
\* or a text that is not a JSON text gives an error with no validator or
\* transformer invoked and nothing changed.  A JSON text with a value that
\* does not fit the type it is decoded into gives the decoding error with no
\* validator or transformer invoked, the values that did fit being left in
\* the pointee.  A pointer to something that is not a struct has the text
\* decoded into it before the mapping refuses it.  On success each text field
\* that alone carries its logical name holds its transformer chain applied to
\* the decoded value.  Nothing but the pointee is ever changed.
C19_DecodedThenMapped ==
    JsonCall =>
      IF call.dest.form \in {"value", "nil"}
      THEN call.err.kind = "target" /\ Log = <<>> /\ cells = call.pre
      ELSE IF call.dest.form = "nilptr"
      THEN call.err.kind = "codec" /\ Log = <<>> /\ cells = call.pre
      ELSE /\ \A c \in DOMAIN cells : c # call.dest.cell => cells[c] = call.pre[c]
           /\ IF call.text \notin WellFormedTexts
              THEN call.err.kind = "codec" /\ Log = <<>> /\ cells = call.pre
              ELSE IF Decoding.err # "none"
              THEN /\ call.err.kind = "codec" /\ Log = <<>>
                   /\ cells[call.dest.cell] = Decoding.val
                   /\ (call.text = JsonTexts[2] /\ call.dest = PtrTo(1)) =>
                         cells[1].el[1] = StrV(<<"b", "o">>)
              ELSE IF ~ToRecord
              THEN /\ call.err.kind = "precondition" /\ Log = <<>>
                   /\ cells[call.dest.cell] = Decoding.val
              ELSE call.err.kind = "none" =>
                     \A i \in SoleTextFields(call.pre[call.dest.cell].t) : ChainHeld(i)

\* a text was decoded into a record whose fields held other values, and the
\* mapping then ran the transformers of a field over what was decoded
C19_Witness ==
    /\ ToRecord /\ call.err.kind = "none"
    /\ call.text = JsonTexts[1] /\ call.dest = PtrTo(1)
    /\ Decoding.err = "none"
    /\ Decoding.val.el[1] = StrV(<<"b", "o">>) /\ Decoding.val.el[4] = IntV(3)
    /\ call.pre[1].el[1] # Decoding.val.el[1]
    /\ cells[1].el[1] # Decoding.val.el[1]
    /\ cells[1].el[4] = IntV(3)
    /\ \E j \in DOMAIN Log : Log[j].ev = "transform"


(***************************************************************************)
(* Concurrent callers.                                                     *)
(***************************************************************************)
Done(g) == goroutine[g].pc = "done"

\* what the call of goroutine g gives when nothing runs beside it, the
\* registries being what they are now
Alone(g) ==
    mapStructsRecursive(goroutine[g].pre[PairOf(g)[1].cell], goroutine[g].pre[PairOf(g)[2].cell],
                        FALSE, <<>>, <<>>, "dest", <<>>)

\* every registration was over before the first mapping call began
RegisteredFirst == ~registering.late

\* the calls that have returned gave what they give alone
AsAlone ==
    \A g \in Goroutines :
       Done(g) =>
          /\ goroutine[g].err = Alone(g).err
          /\ goroutine[g].log = Alone(g).log
          /\ cells[PairOf(g)[2].cell] = Alone(g).dest
          /\ cells[PairOf(g)[1].cell] = goroutine[g].pre[PairOf(g)[1].cell]

\* a step of the mapping call of goroutine g writes nothing but the
\* destination record of g
OwnRecordOnly ==
    \A g \in Goroutines :
       goroutine'[g] # goroutine[g] =>
          /\ transformerRegistry' = transformerRegistry
          /\ validatorRegistry' = validatorRegistry
          /\ \A c \in DOMAIN cells : c # PairOf(g)[2].cell => cells'[c] = cells[c]
          /\ \A h \in Goroutines \ {g} : goroutine'[h] = goroutine[h]

\* C20: no step of a mapping call writes the registries, a record of another
\* call or anything another call uses.  If every registration was over
\* before the first mapping call began then, however the steps of the
\* concurrent calls on distinct records interleave, no registry is read
\* while it is written and each call returns the result and leaves the
\* destination it gives when run alone.  A registry is read while it is
\* written, and the process stopped for it, only when a registration was in
\* progress while a mapping call began or ran.
C20_ConcurrentMappings ==
    /\ [][OwnRecordOnly]_vars
    /\ [](RegisteredFirst => (AsAlone /\ ~registering.raced /\ ~registering.fatal))
    /\ [](registering.fatal => registering.raced)

\* two calls, each begun before the other had written its destination, have
\* both returned after validating, transforming and writing, all
\* registrations having been made before
C20_Witness ==
    /\ RegisteredFirst
    /\ \A g \in Goroutines : Done(g)
    /\ \A g \in Goroutines :
          /\ goroutine[g].err.kind = "none"
          /\ \E j \in DOMAIN goroutine[g].log : goroutine[g].log[j].ev = "transform"
          /\ \E j \in DOMAIN goroutine[g].log : goroutine[g].log[j].ev = "validate"
          /\ cells[PairOf(g)[2].cell] # goroutine[g].pre[PairOf(g)[2].cell]
          /\ \A h \in Goroutines : goroutine[h].pre[PairOf(g)[2].cell] = goroutine[g].pre[PairOf(g)[2].cell]
    /\ DOMAIN transformerRegistry = {sUp, sEx, sTw}

\* a registration overlapped a mapping call, nothing ordering the two: the
\* call read the registry while the registration was writing it, and
\* returned
C20_Raced == registering.raced /\ ~registering.fatal /\ \E g \in Goroutines : Done(g)

\* the same, the runtime having stopped the process
C20_Fatal == registering.fatal


(***************************************************************************)
(* The built-in validators.                                                *)
(***************************************************************************)
\* the input of the last call is text, an optional text, or nothing at all
Interpretable(v) == v.t \in {"string", "*string", "invalid"}

\* the validator returned a failure
Failed == call.err.kind = "cause"

\* C21 as stated: a built-in text validator given a value that is neither
\* text nor an optional text returns a failure: it neither accepts the value
\* nor crashes.
C21_AsStated ==
    (call.op \in TextValidators /\ ~Interpretable(call.arg)) => Failed

\* the arguments "min-max" and the thresholds of the model, with their numbers
RangeForms ==
    { [text |-> <<"1", "-", "5">>, min |-> 1, max |-> 5], [text |-> <<"0", "-", "3">>, min |-> 0, max |-> 3],
      [text |-> <<"3", "-", "3">>, min |-> 3, max |-> 3] }

Thresholds ==
    { [text |-> <<"3">>, t |-> 3], [text |-> <<"0">>, t |-> 0], [text |-> <<"-", "1">>, t |-> 0 - 1] }

\* C22 as stated: for an integer input n and an argument "min-max" with
\* 0 <= min <= max, RangeValidator returns a failure exactly when n < min or
\* n > max; GreaterThanValidator(n, t) returns a failure exactly when n <= t.
C22_AsStated ==
    /\ (call.op = "RangeValidator" /\ call.arg.t = "int") =>
          \A r \in RangeForms :
             call.spec = r.text => (Failed <=> (call.arg.n < r.min \/ call.arg.n > r.max))
    /\ (call.op = "GreaterThanValidator" /\ call.arg.t = "int") =>
          \A th \in Thresholds :
             call.spec = th.text => (Failed <=> call.arg.n <= th.t)

(***************************************************************************)
(* The shape rules of setFieldValue.                                       *)
(***************************************************************************)
\* the value behind a pointer, or the value itself; the same for a type
Unwrapped(v) == IF Kind(v.t) = "ptr" THEN v.el[1] ELSE v
UnwrappedType(t) == IF Kind(t) = "ptr" THEN Elem(t) ELSE t

\* the names of the rules, in the order they are listed
RuleNames ==
    << "Record->Record", "Sequence->Sequence", "Text->Record/Sequence",
       "Record/Sequence->Text", "Text->String-sequence", "String-sequence->Text",
       "Fallback" >>

\* the shape condition of a rule, s and d being the unwrapped types of the
\* source and of the destination
ShapeMatches(rule, s, d) ==
    CASE rule = "Record->Record" -> Kind(s) = "struct" /\ Kind(d) = "struct"
      [] rule = "Sequence->Sequence" -> Kind(s) = "slice" /\ Kind(d) = "slice"
      [] rule = "Text->Record/Sequence" -> Kind(s) = "string" /\ Kind(d) \in {"struct", "slice"}
      [] rule = "Record/Sequence->Text" -> Kind(s) \in {"struct", "slice"} /\ Kind(d) = "string"
      [] rule = "Text->String-sequence" ->
           Kind(s) = "string" /\ Kind(d) = "slice" /\ Kind(Elem(d)) = "string"
      [] rule = "String-sequence->Text" ->
           Kind(s) = "slice" /\ Kind(Elem(s)) = "string" /\ Kind(d) = "string"
      [] OTHER -> TRUE

\* the first rule in the listed order whose shape condition matches
FirstRule(s, d) ==
    RuleNames[CHOOSE n \in DOMAIN RuleNames :
                 /\ ShapeMatches(RuleNames[n], s, d)
                 /\ \A m \in 1..(n - 1) : ~ShapeMatches(RuleNames[m], s, d)]

\* the top-level source fields of the last call that have a like-named
\* destination field and are not a nil pointer
Coerced ==
    {i \in NamedFields(SrcPre.t) :
        /\ Counterparts(DestPre.t, LogicalName(Fields(SrcPre.t)[i])) # {}
        /\ ~(Kind(Fields(SrcPre.t)[i].type) = "ptr" /\ SrcPre.el[i].nil)}

\* the writes of earlier fields into the slot source field i is read from,
\* when the record is mapped onto itself
WrittenBefore(i) ==
    {k \in DOMAIN Log :
        /\ call.src.cell = call.dest.cell
        /\ Log[k].ev = "write" /\ Log[k].dpath = <<i>> /\ Log[k].path[1] < i}

\* the greatest number of a non-empty set
Greatest(S) == CHOOSE k \in S : \A m \in S : m <= k

\* the value setFieldValue is given for source field i, unwrapped
Given(i) ==
    Unwrapped(IF WrittenBefore(i) = {} THEN SrcPre.el[i]
              ELSE Log[Greatest(WrittenBefore(i))].val)

\* the unwrapped type of the destination field of source field i
SlotType(i) == UnwrappedType(Fields(DestPre.t)[Target(i)].type)

\* the assignments to the unwrapped destination slot made for source field i
SlotWrites(i) ==
    {k \in DOMAIN Log :
        /\ Log[k].ev = "write" /\ Log[k].to = "dest"
        /\ Log[k].path = <<i>> /\ Log[k].dpath = <<Target(i)>>
        /\ Kind(Log[k].val.t) # "ptr"}

\* the transformer calls made for source field i itself
OwnTransforms(i) == {k \in DOMAIN Log : Log[k].ev = "transform" /\ Log[k].path = <<i>>}

\* what the fallback assigns: the output of the last transformer called for
\* the field, the value itself when none is called
FallbackValue(i) ==
    IF OwnTransforms(i) = {} THEN Given(i) ELSE Log[Greatest(OwnTransforms(i))].out

\* the one value assigned to the slot for source field i is v
Assigned(i, v) == \E k \in DOMAIN Log : SlotWrites(i) = {k} /\ Log[k].val = v

\* what a rule that ran to its end leaves behind for source field i
Applied(rule, i) ==
    CASE rule = "Record->Record" ->
           /\ SlotWrites(i) = {} /\ OwnTransforms(i) = {}
      [] rule = "Sequence->Sequence" ->
           /\ OwnTransforms(i) = {}
           /\ \E k \in DOMAIN Log :
                 /\ SlotWrites(i) = {k}
                 /\ Log[k].val.t = SlotType(i) /\ ~Log[k].val.nil
                 /\ Len(Log[k].val.el) = Len(Given(i).el)
                 /\ \A e \in DOMAIN Given(i).el :
                       \E w \in 1..(k - 1) :
                          /\ Log[w].ev = "write" /\ Log[w].to = "temp"
                          /\ IsPrefix(<<i, e>>, Log[w].path)
      [] rule = "Text->Record/Sequence" ->
           /\ OwnTransforms(i) = {}
           /\ Assigned(i, Unmarshal(CodecInput(Given(i).s, SlotType(i)), Zero(SlotType(i))).val)
      [] rule = "Record/Sequence->Text" ->
           /\ OwnTransforms(i) = {}
           /\ Assigned(i, StrV(Marshal(Given(i))))
      [] rule = "Text->String-sequence" ->
           Assigned(i, splitTrimmed(SlotType(i), Given(i).s))
      [] rule = "String-sequence->Text" ->
           Assigned(i, StrV(Join(Given(i).el, <<",">>)))
      [] OTHER ->
           Assigned(i, FallbackValue(i))

\* how a rule that did not run to its end has ended the call at source field i
Stopped(rule, i) ==
    /\ SlotWrites(i) = {}
    /\ CASE rule = "Record->Record" ->
              \/ call.err.kind \in BuildErrors /\ call.err.path = <<i>>
              \/ Len(call.err.path) > 1
         [] rule = "Sequence->Sequence" -> Len(call.err.path) > 1
         [] rule = "Text->Record/Sequence" -> call.err.kind = "codec" /\ call.err.path = <<i>>
         [] rule = "Fallback" -> call.err.kind = "panic" /\ call.err.path = <<i>>
         [] OTHER -> FALSE

\* the call ended within source field i, its validators having accepted it
StoppedAt(i) ==
    /\ call.err.kind \notin {"none", "validation"} \/ Len(call.err.path) > 1
    /\ call.err.path # <<>> /\ call.err.path[1] = i
    /\ ~WentPast(i)

RuleApplied(rule) ==
    /\ Mapped
    /\ \E i \in Coerced :
          /\ WentPast(i) /\ FirstRule(Given(i).t, SlotType(i)) = rule
          /\ Applied(rule, i)

C23_Nested == RuleApplied("Record->Record") /\ RuleApplied("Sequence->Sequence")

\* a call ended within a field, stopped by its rule
C23_Stopped == Mapped /\ \E i \in Coerced : StoppedAt(i)

(***************************************************************************)
(* Sequence to sequence.                                                   *)
(***************************************************************************)
\* the source fields of the last call handled by the sequence-to-sequence rule
Sequences ==
    {i \in Coerced : FirstRule(Given(i).t, SlotType(i)) = "Sequence->Sequence"}

\* the fields of the record type st written to field j of the record type dt
WrittenTo(st, dt, j) ==
    {m \in NamedFields(st) :
        /\ Counterparts(dt, LogicalName(Fields(st)[m])) # {}
        /\ LastNamed(dt, LogicalName(Fields(st)[m])) = j}

\* the coercion of the element x of a source sequence into a fresh element
\* of type dt, names being the transformers of the field: a record of texts
\* is mapped field by field with the transformers of its own tags, anything
\* else goes through the transformers of the field
ElementCoerced(x, dt, names) ==
    IF Kind(x.t) = "struct"
    THEN StructV(dt, [j \in FieldIdx(dt) |->
             IF WrittenTo(x.t, dt, j) = {} THEN Zero(Fields(dt)[j].type)
             ELSE Chain(TagNames(Fields(x.t)[Greatest(WrittenTo(x.t, dt, j))].transformer),
                        call.treg, 1, x.el[Greatest(WrittenTo(x.t, dt, j))])])
    ELSE Chain(names, call.treg, 1, x)

\* the sequence the rule is to assign for source field i: as long as the
\* source, its elements coerced one by one, in order
Converted(i) ==
    SliceV(SlotType(i),
           [k \in DOMAIN Given(i).el |->
               ElementCoerced(Given(i).el[k], Elem(SlotType(i)),
                              TagNames(Fields(SrcPre.t)[i].transformer))])

\* source field i is the last one of its logical name
LastOfName(i) == i = LastNamed(SrcPre.t, LogicalName(Fields(SrcPre.t)[i]))

\* the destination field of source field i holds what it held before the call
Untouched(i) == DestPost.el[Target(i)] = DestPre.el[Target(i)]

\* the call ended within element k of source field i, the elements before it
\* converted
StoppedAtElement(i, k) ==
    /\ IsPrefix(<<i, k>>, call.err.path)
    /\ \A e \in 1..(k - 1) :
          \E w \in DOMAIN Log :
             Log[w].ev = "write" /\ Log[w].to = "temp" /\ IsPrefix(<<i, e>>, Log[w].path)

\* C24 as stated: when the source and destination fields are both sequences,
\* a call that goes past the field has assigned a sequence as long as the
\* source whose element k is the coercion of source element k, which the
\* destination field holds after the call; when the coercion of an element
\* fails, the call returns the error and the destination field is not
\* assigned.
C24_AsStated ==
    Mapped =>
      \A i \in Sequences :
         /\ WentPast(i) =>
               /\ Assigned(i, Converted(i))
               /\ LastOfName(i) => Unwrapped(DestPost.el[Target(i)]) = Converted(i)
         /\ StoppedAt(i) =>
               /\ call.err.kind \in ReturnedKinds \ {"none"}
               /\ SlotWrites(i) = {} /\ Untouched(i)

\* What holds: when the source and destination fields are both sequences, a call
\* that goes past the field has assigned to the destination field, once, a
\* sequence as long as the source whose element k is the coercion of source
\* element k, and the field holds it after the call; a nil source sequence
\* gives an empty one.  When the coercion of an element fails, the call ends
\* there with the failure of that element (the error it returned, or the
\* panic of an assignment of a value of another type), the elements behind
\* it are not looked at and the destination field is not assigned.
C24_ElementsConverted ==
    Mapped =>
      \A i \in Sequences :
         /\ WentPast(i) =>
               /\ Assigned(i, Converted(i))
               /\ ~Converted(i).nil /\ Len(Converted(i).el) = Len(Given(i).el)
               /\ LastOfName(i) => Unwrapped(DestPost.el[Target(i)]) = Converted(i)
         /\ StoppedAt(i) =>
               /\ \E k \in DOMAIN Given(i).el : StoppedAtElement(i, k)
               /\ call.err.kind \in (ReturnedKinds \cup {"panic"}) \ {"none"}
               /\ call.err.kind = "panic" => Kind(Given(i).el[1].t) # "struct"
               /\ \A k \in DOMAIN Log : Log[k].path[1] <= i
               /\ SlotWrites(i) = {} /\ Untouched(i)

\* a sequence of two records was converted element by element, a transformer
\* applied in each, into a field that held no sequence
C24_Converted ==
    /\ Mapped /\ call.err.kind = "none"
    /\ \E i \in Sequences :
          /\ Len(Given(i).el) = 2 /\ Kind(Elem(SlotType(i))) = "struct"
          /\ DestPre.el[Target(i)].nil
          /\ DestPost.el[Target(i)] = Converted(i)
          /\ \E k \in DOMAIN Log : Log[k].ev = "transform" /\ IsPrefix(<<i, 2>>, Log[k].path)

\* the second element of a sequence was refused by a validator of its record:
\* the error was returned
C24_ElementRefused ==
    /\ Mapped /\ call.err.kind = "validation"
    /\ \E i \in Sequences : StoppedAt(i) /\ call.err.path[2] = 2 /\ Untouched(i)

\* an element that is a text was bound for a sequence of numbers: the call
\* ended in the panic of the assignment, no error returned
C24_ElementPanicked ==
    /\ Mapped /\ call.err.kind = "panic"
    /\ \E i \in Sequences : StoppedAt(i) /\ call.err.path = <<i, 1>>

(***************************************************************************)
(* The registries are read at each call.                                   *)
(***************************************************************************)
\* the field of the record type t whose tags govern what is done at path: a
\* field of t, of a record nested in it, or of the records of a sequence; an
\* element of a sequence of texts goes by the tags of the sequence field
RECURSIVE FieldAt(_, _)
FieldAt(t, path) ==
    IF Len(path) = 1 THEN Fields(t)[path[1]]
    ELSE IF Kind(UnwrappedType(Fields(t)[path[1]].type)) = "slice"
    THEN IF Len(path) = 2 THEN Fields(t)[path[1]]
         ELSE FieldAt(Elem(UnwrappedType(Fields(t)[path[1]].type)), Tail(Tail(path)))
    ELSE FieldAt(UnwrappedType(Fields(t)[path[1]].type), Tail(path))

\* the events of kind ev of the last call at the path of event j, up to j
Nth(ev, j) ==
    Cardinality({m \in 1..j : Log[m].ev = ev /\ Log[m].path = Log[j].path})

\* the last call looked every name up in the registries as they were when it
\* began: a name they lack in the tags of its source type ends it with the
\* error for that name, nothing done; no error is reported for a name they
\* hold; each transformer and validator called is the function they hold
\* under the name the tag lists at that place
ResolvedAtCall ==
    Mapped =>
      /\ IF UnregisteredTransformers(SrcPre.t, call.treg) # {}
         THEN /\ call.err.kind = "transformerNotFound" /\ call.err.path = <<>>
              /\ call.err.name \in UnregisteredTransformers(SrcPre.t, call.treg)
              /\ Log = <<>>
         ELSE IF UnregisteredValidators(SrcPre.t, call.vreg) # {}
         THEN /\ call.err.kind = "validatorParse" /\ call.err.path = <<>>
              /\ call.err.arg \in UnregisteredValidators(SrcPre.t, call.vreg)
              /\ Log = <<>>
         ELSE ~(call.err.kind \in BuildErrors /\ call.err.path = <<>>)
      /\ call.err.kind = "transformerNotFound" => call.err.name \notin DOMAIN call.treg
      /\ call.err.kind = "validatorParse" => call.err.arg \notin DOMAIN call.vreg
      /\ \A j \in DOMAIN Log :
            /\ Log[j].ev = "transform" =>
                  Log[j].fn = call.treg[TagNames(FieldAt(SrcPre.t, Log[j].path).transformer)
                                           [Nth("transform", j)]]
            /\ Log[j].ev = "validate" =>
                  Log[j].fn = call.vreg[TagNames(FieldAt(SrcPre.t, Log[j].path).validator)
                                           [Nth("validate", j)]]

\* a step that is a call of MapStructs
Called == ncalls' = ncalls + 1

\* the registries a call works with are those of the moment it is made
ReadWhenCalled ==
    Called => call'.treg = transformerRegistry /\ call'.vreg = validatorRegistry

\* a call that follows one that failed for a name then missing does not fail
\* for that name once it is registered
FoundOnceRegistered ==
    /\ (Called /\ call.err.kind = "transformerNotFound"
               /\ call.err.name \in DOMAIN transformerRegistry)
          => ~(call'.err.kind = "transformerNotFound" /\ call'.err.name = call.err.name)
    /\ (Called /\ call.err.kind = "validatorParse"
               /\ call.err.arg \in DOMAIN validatorRegistry)
          => ~(call'.err.kind = "validatorParse" /\ call'.err.arg = call.err.arg)

\* C25: in any sequence of registrations and MapStructs calls, each call
\* resolves the names of the tags against the registries as they are when it
\* is made: it fails with not found exactly for a name they lack then, so a
\* call that failed for a missing name does not fail for it once the name is
\* registered, and each function it calls is the one registered last under
\* the name.
C25_RegistryReadAtEachCall ==
    /\ []ResolvedAtCall
    /\ [][ReadWhenCalled /\ FoundOnceRegistered]_vars

\* a second call succeeded, transformers called, on records that nothing had
\* written: the first call had failed for a name not yet registered
C25_Witness ==
    /\ ncalls = 2 /\ Mapped /\ call.err.kind = "none"
    /\ call.src.cell = 1
    /\ \E q \in CodeChoices : call.pre = InitCells(<<"b", "o">>, q)
    /\ \E j \in DOMAIN Log : Log[j].ev = "transform"

\* a second call to the same records called, under the name up, another
\* function than the first: the destination held "BO! BO!" and now holds
\* "bo!! bo!!"
C25_Reregistered ==
    /\ ncalls = 2 /\ Mapped /\ call.err.kind = "none"
    /\ call.src.cell = 1
    /\ DestPre.el[1] = StrV(<<"B", "O", "!", " ", "B", "O", "!">>)
    /\ call.treg[sUp] = "addExclamation"
    /\ DestPost.el[1] = StrV(<<"b", "o", "!", "!", " ", "b", "o", "!", "!">>)

\* a validator registered again was the one called for an element of a
\* sequence of records
C25_ValidatorReplaced ==
    /\ Mapped /\ sLen \in DOMAIN call.vreg
    /\ \E j \in DOMAIN Log :
          Log[j].ev = "validate" /\ Len(Log[j].path) = 3 /\ Log[j].fn = "MaxLengthValidator"

(***************************************************************************)
(* What a mapping leaves alone.                                            *)
(***************************************************************************)
\* the fields of the destination of the last call that have no serialization
\* tag, the tag "-", or a logical name that no source field carries
Unmatched ==
    {j \in FieldIdx(DestPre.t) :
        \/ LogicalName(Fields(DestPre.t)[j]) = <<>>
        \/ Counterparts(SrcPre.t, LogicalName(Fields(DestPre.t)[j])) = {}}

\* C26: after a call of MapStructs, returned with or without an error, every
\* destination field that has no serialization tag, the tag "-", or a
\* logical name that no source field carries holds the value it held before;
\* no assignment is made to it; and every record other than the destination,
\* the source among them, is as it was.
C26_FrameKept ==
    call.op = "MapStructs" =>
      /\ \A c \in DOMAIN cells : c # call.dest.cell => cells[c] = call.pre[c]
      /\ Mapped =>
            \A j \in Unmatched :
               /\ DestPost.el[j] = DestPre.el[j]
               /\ \A k \in DOMAIN Log :
                     (Log[k].ev = "write" /\ Log[k].to = "dest") => Log[k].dpath[1] # j

\* a call that failed had assigned a field of the destination, whose field
\* without a tag and field tagged "-" hold the texts they held, the source
\* being another record
C26_Witness ==
    /\ Mapped /\ call.err.kind = "validation" /\ call.src.cell # call.dest.cell
    /\ DestPost # DestPre
    /\ \E j \in Unmatched :
          Fields(DestPre.t)[j].json = <<"-">> /\ DestPost.el[j] = StrV(<<"k", "e", "e", "p">>)
    /\ \E j \in Unmatched :
          Fields(DestPre.t)[j].json = <<>> /\ DestPost.el[j] = StrV(<<"e">>)

\* a call went through and left the destination as it was, none of its
\* logical names being carried by a source field
C26_NoFieldMatch ==
    /\ Mapped /\ call.err.kind = "none"
    /\ Unmatched = FieldIdx(DestPre.t) /\ NamedFields(DestPre.t) # {}
    /\ DestPost = DestPre /\ DestPre # Zero(DestPre.t)

(***************************************************************************)
(* Each field by its own tags.                                             *)
(***************************************************************************)
\* the functions the registry reg holds under the names a tag lists
TagFunctions(tag, reg) ==
    {reg[n] : n \in Range(TagNames(tag)) \cap DOMAIN reg}

\* what is done for the top-level source field i follows the tags of
\* field i: each validator called for it is named in its validator tag and is
\* given the argument written there, each transformer called for it is named
\* in its transformer tag
ByOwnTags(i) ==
    \A j \in DOMAIN Log :
       Log[j].path = <<i>> =>
          /\ Log[j].ev = "validate" =>
                \E k \in DOMAIN TagNames(Fields(SrcPre.t)[i].validator) :
                   /\ Log[j].fn = call.vreg[TagNames(Fields(SrcPre.t)[i].validator)[k]]
                   /\ Log[j].arg = TagArgs(Fields(SrcPre.t)[i].validator)[k]
          /\ Log[j].ev = "transform" =>
                Log[j].fn \in TagFunctions(Fields(SrcPre.t)[i].transformer, call.treg)

\* C27 as stated: every source field is validated only by the validators
\* named in its own validator tag and transformed only by the transformers
\* named in its own transformer tag (a field without the tag by none), also
\* when two fields of the source record carry the same logical name.
C27_AsStated ==
    Mapped => \A i \in NamedFields(SrcPre.t) : ByOwnTags(i)

\* the same of the fields whose logical name no other field of the source
\* record carries
C27_UniqueNames ==
    Mapped =>
      \A i \in NamedFields(SrcPre.t) :
         Counterparts(SrcPre.t, LogicalName(Fields(SrcPre.t)[i])) = {i} => ByOwnTags(i)

\* a field that shares its logical name with a later one went through the
\* validator and the transformer of that one, neither named in its own tags
C27_ByAnothersTags ==
    /\ Mapped
    /\ \E i \in NamedFields(SrcPre.t) :
          /\ \E j \in DOMAIN Log :
                /\ Log[j].path = <<i>> /\ Log[j].ev = "validate"
                /\ Log[j].fn \notin TagFunctions(Fields(SrcPre.t)[i].validator, call.vreg)
          /\ \E j \in DOMAIN Log :
                /\ Log[j].path = <<i>> /\ Log[j].ev = "transform"
                /\ Log[j].fn \notin TagFunctions(Fields(SrcPre.t)[i].transformer, call.treg)

(***************************************************************************)
(* Transformers and the shape rules.                                       *)
(***************************************************************************)
\* the top-level source fields of the last call that carry a transformer
\* tag, have a logical name of their own and a like-named destination field,
\* and that the call went past
Transformed ==
    {i \in Coerced :
        /\ Fields(SrcPre.t)[i].transformer # <<>>
        /\ Counterparts(SrcPre.t, LogicalName(Fields(SrcPre.t)[i])) = {i}
        /\ WentPast(i)}

\* the transformer calls of the last call made at path, in order
TransformsAt(path) == SelectSeq(Log, LAMBDA e : e.ev = "transform" /\ e.path = path)

\* the chain of the transformer tag of source field i was called at path on
\* the value x: every function of the tag, in order, the first on x and each
\* of the others on the output of the one before
ChainCalled(i, path, x) ==
    /\ Len(TransformsAt(path)) = Len(TagNames(Fields(SrcPre.t)[i].transformer))
    /\ \A k \in DOMAIN TransformsAt(path) :
          /\ TransformsAt(path)[k].fn = call.treg[TagNames(Fields(SrcPre.t)[i].transformer)[k]]
          /\ TransformsAt(path)[k].val = IF k = 1 THEN x ELSE TransformsAt(path)[k - 1].out

\* C28 as stated: whenever a source field with a transformer tag is written
\* to its like-named destination field, the transformer chain of the field
\* has been applied to the source value (to each element, for a sequence
\* converted element by element), whichever shape rule handles the field.
C28_AsStated ==
    Mapped =>
      \A i \in Transformed :
         IF FirstRule(Given(i).t, SlotType(i)) = "Sequence->Sequence"
         THEN \A k \in DOMAIN Given(i).el : ChainCalled(i, <<i, k>>, Given(i).el[k])
         ELSE ChainCalled(i, <<i>>, Given(i))

\* what holds: the chain is applied by the fallback, also to the elements of
\* a sequence that reach it; the rules that decode a text or encode a record
\* or a sequence assign without calling any transformer
C28_FallbackOnly ==
    Mapped =>
      \A i \in Transformed :
         CASE FirstRule(Given(i).t, SlotType(i)) = "Fallback" ->
                ChainCalled(i, <<i>>, Given(i))
           [] FirstRule(Given(i).t, SlotType(i)) = "Sequence->Sequence" ->
                \A k \in DOMAIN Given(i).el :
                   Kind(Given(i).el[k].t) # "struct" => ChainCalled(i, <<i, k>>, Given(i).el[k])
           [] OTHER ->
                \A j \in DOMAIN Log : Log[j].ev = "transform" => ~IsPrefix(<<i>>, Log[j].path)

\* a sequence of texts whose tag names a registered transformer was written
\* as its JSON text, no transformer called, and so was a text decoded into a
\* sequence
C28_Skipped ==
    /\ Mapped
    /\ \E i \in Transformed :
          /\ FirstRule(Given(i).t, SlotType(i)) = "Record/Sequence->Text"
          /\ Given(i).el # <<>>
          /\ DestPost.el[Target(i)] = StrV(Marshal(SrcPre.el[i]))
          /\ TransformsAt(<<i>>) = <<>>
    /\ \E i \in Transformed :
          /\ FirstRule(Given(i).t, SlotType(i)) = "Text->Record/Sequence"
          /\ DestPost.el[Target(i)].el # <<>>
          /\ TransformsAt(<<i>>) = <<>>

(***************************************************************************)
(* A coercion that fails.                                                  *)
(***************************************************************************)
\* C29 as stated: when the coercion of a source field into its destination
\* field fails, the destination field holds after the call the value it held
\* before the call, also when it is a pointer that was nil.
C29_AsStated ==
    Mapped => \A i \in Coerced : StoppedAt(i) => Untouched(i)

\* what holds of the records of the model: the destination field holds the
\* value it held before the call unless it was a nil pointer, and then it
\* holds a pointer to the zero value of its element type
C29_AllocatedAllTheSame ==
    Mapped =>
      \A i \in Coerced :
         StoppedAt(i) =>
            IF Kind(DestPre.el[Target(i)].t) = "ptr" /\ DestPre.el[Target(i)].nil
            THEN DestPost.el[Target(i)]
                   = PtrV(DestPre.el[Target(i)].t, Zero(Elem(DestPre.el[Target(i)].t)))
            ELSE Untouched(i)

\* a text that does not decode was bound for a nil pointer to a record: the
\* call returned the error of the codec and the pointer is no longer nil
C29_OptionalSet ==
    /\ Mapped /\ call.err.kind = "codec"
    /\ \E i \in Coerced :
          /\ StoppedAt(i) /\ DestPre.el[Target(i)].nil /\ ~DestPost.el[Target(i)].nil
          /\ DestPost.el[Target(i)].el[1] = Zero("Leaf")

(***************************************************************************)
(* The section scanner.                                                    *)
(***************************************************************************)
\* C30 as stated: whatever the specification string, ValidateSingleField
\* does not crash; a section whose marker is absent or whose closing quote is
\* missing counts as empty, so that no validator, or no transformer, is
\* called for it.
C30_AsStated ==
    FieldCall =>
      /\ call.err.kind # "panic"
      /\ ~Closed(call.spec, sValidatorsKey) => Validations = <<>>
      /\ ~Closed(call.spec, sTransformersKey) => Transforms = <<>>

\* what holds: the call ends in a panic exactly when a section lacks its
\* closing quote, and then nothing was called and nothing is returned
C30_PanicsUnclosed ==
    FieldCall =>
      /\ call.err.kind = "panic"
            <=> ~(Closed(call.spec, sValidatorsKey) /\ Closed(call.spec, sTransformersKey))
      /\ call.err.kind = "panic" => Log = <<>> /\ call.ret = NoV

\* a spec whose validators section is not closed, and one whose validators
\* section is closed and whose transformers section is not, made the call
\* panic
C30_Crashed ==
    /\ FieldCall /\ call.err.kind = "panic"
    /\ ~Closed(call.spec, sTransformersKey) \/ ~Closed(call.spec, sValidatorsKey)
    /\ call.arg.t = "string" /\ call.arg.s # <<>>

====
